---- MODULE Spec2Model ----
(***************************************************************************)
(* The Serie B prediction portal (server.js): the standings engine         *)
(* (computeClassification, applyMatchStats,                                *)
(* updateClassificationFromMatchChanges and the admin handlers that store  *)
(* their results), the ranking of the predictions (handleRanking), the     *)
(* form of a team (computeTeamForm) and the fixtures of the simulation     *)
(* page (handleSimulacao).                                                 *)
(*                                                                         *)
(* A score is modelled as a sequence: <<>> is JavaScript null (no score),  *)
(* <<n>> is the number n.  A JavaScript object used as a map with integer  *)
(* keys is a function on the set of its keys; Object.values lists it in    *)
(* ascending key order.                                                    *)
(***************************************************************************)
EXTENDS Integers, Sequences, FiniteSets, TLC

VARIABLES teams,           \* the team list (teams.json)
          oldMatches,      \* the match list before a change
          matches,         \* the match list (matches.json / newMatches)
          classification,  \* the standings table (classification.json), the
                           \* objects handed to updateClassificationFromMatchChanges
          ret,             \* the table returned by the last call
          op,              \* the last operation and how it ended
          error,           \* the exception that left the last call, "" when none
          users,           \* the user list (users.json)
          predictions,     \* the rows of the predictions table
          arg,             \* the argument of the last request or call: the
                           \* round of the query string, a team id, a form
          dbPredictions,   \* the rows of the predictions table of the
                           \* database, predictions being predictions.json
          calls,           \* the calls of savePredictionsForRound made so
                           \* far, each with the step it has reached
          sessions,        \* the session store: token -> user id
          scorers          \* scorers.json

vars == <<teams, oldMatches, matches, classification, ret, op, error,
          users, predictions, arg, dbPredictions, calls, sessions, scorers>>

\* The variables the prediction form does not read.
site == <<calls, sessions, scorers>>

\* The variables the standings engine does not read.
others == <<users, predictions, arg, dbPredictions, site>>

\* No call in flight, no session and no scorer.
SiteUnused == calls = <<>> /\ sessions = <<>> /\ scorers = <<>>

\* No user, no prediction and no argument.
OthersUnused ==
  /\ users = <<>> /\ predictions = <<>> /\ arg = "" /\ dbPredictions = <<>>
  /\ SiteUnused

-----------------------------------------------------------------------------
(* Bounds and sample data *)

\* Largest number of goals a side scores in a match.
MaxGoals == 1

Null == <<>>

Num(n) == <<n>>

\* The number a score counts as in arithmetic and comparisons (null is 0).
Val(s) == IF s = Null THEN 0 ELSE s[1]

\* NaN, what parseInt gives for a field that is no number: a number outside
\* every range a score or a counter reaches.
NaN == -1000

\* null in a number field of a stored table: JSON.stringify writes NaN as
\* null.
NullField == -2000

\* ToNumber of a number field: null is 0.
ToNumber(x) == IF x = NullField THEN 0 ELSE x

\* a + b, a - b and a * b on number fields: NaN when an operand is NaN.
Plus(a, b) == IF a = NaN \/ b = NaN THEN NaN ELSE ToNumber(a) + ToNumber(b)

Minus(a, b) == IF a = NaN \/ b = NaN THEN NaN ELSE ToNumber(a) - ToNumber(b)

Times(a, b) == IF a = NaN \/ b = NaN THEN NaN ELSE ToNumber(a) * ToNumber(b)

\* a > b: false when an operand is NaN.
Greater(a, b) == a # NaN /\ b # NaN /\ ToNumber(a) > ToNumber(b)

\* a !== b: NaN differs from everything, itself too.
StrictlyDiffer(a, b) == a = NaN \/ b = NaN \/ a # b

\* A score field: null or a number in 0..MaxGoals.
Scores == {Null} \cup {Num(n) : n \in 0..MaxGoals}

\* Collation order of the team names (localeCompare compares positions).
Collation == <<"Avai", "Criciuma", "Goias">>

\* Team list: the ids are not in the alphabetical order of the names.
Teams ==
  << [id |-> 1, name |-> "Goias"],
     [id |-> 2, name |-> "Criciuma"],
     [id |-> 3, name |-> "Avai"] >>

\* excludedMatchIds
excludedMatchIds == {5, 6, 7, 8}

-----------------------------------------------------------------------------
(* Helpers for JavaScript arrays and objects *)

Range(f) == {f[x] : x \in DOMAIN f}

\* Object.values(map) of an object with integer keys: ascending key order.
ObjectValues(map) ==
  LET D == DOMAIN map
  IN  [p \in 1..Cardinality(D) |->
         map[CHOOSE k \in D : Cardinality({j \in D : j < k}) = p - 1]]

\* Array.prototype.sort with a comparator (stable): element i goes after
\* every element that compares before it and every equal element that
\* precedes it in the array.  cmp[<<a, b>>] is the comparator's result for
\* the elements a and b.
Sort(seq, cmp) ==
  LET n == Len(seq)
      Pos(i) == 1 + Cardinality({j \in 1..n :
                       \/ cmp[<<seq[j], seq[i]>>] < 0
                       \/ cmp[<<seq[j], seq[i]>>] = 0 /\ j < i})
  IN  [p \in 1..n |-> seq[CHOOSE i \in 1..n : Pos(i) = p]]

\* array.find(m => m.id === id): index of the first element, 0 when none.
FindIndexById(ms, id) ==
  IF \E i \in 1..Len(ms) : ms[i].id = id
  THEN CHOOSE i \in 1..Len(ms) :
         ms[i].id = id /\ \A j \in 1..(i - 1) : ms[j].id # id
  ELSE 0

\* String.prototype.localeCompare on team names.
localeCompare(a, b) ==
  LET Rank(s) == CHOOSE i \in 1..Len(Collation) : Collation[i] = s
  IN  IF Rank(a) < Rank(b) THEN -1 ELSE IF Rank(a) > Rank(b) THEN 1 ELSE 0

\* The exception of a property access on undefined (homeStats.games++ and
\* entry.games += ... with no entry for the team).
TypeError == "TypeError"

\* teams.find(t => t.id === id).name
TeamName(ts, id) == ts[CHOOSE i \in 1..Len(ts) : ts[i].id = id].name

-----------------------------------------------------------------------------
(* applyMatchStats *)

\* applyMatchStats without the sign: the statistics are added even when add
\* is false.
applyMatchStatsAlwaysAdd(entry, goalsFor, goalsAgainst, add) ==
  LET base == [entry EXCEPT !.games = @ + 1,
                            !.goals_for = @ + goalsFor,
                            !.goals_against = @ + goalsAgainst]
  IN  IF goalsFor > goalsAgainst
      THEN [base EXCEPT !.wins = @ + 1, !.points = @ + 3]
      ELSE IF goalsFor < goalsAgainst
      THEN [base EXCEPT !.losses = @ + 1]
      ELSE [base EXCEPT !.draws = @ + 1, !.points = @ + 1]

applyMatchStats(entry, goalsFor, goalsAgainst, add) ==
  LET sign == IF add THEN 1 ELSE -1
      base == [entry EXCEPT !.games = @ + 1 * sign,
                            !.goals_for = Plus(@, Times(goalsFor, sign)),
                            !.goals_against = Plus(@, Times(goalsAgainst, sign))]
  IN  IF Greater(goalsFor, goalsAgainst)
      THEN [base EXCEPT !.wins = @ + 1 * sign, !.points = @ + 3 * sign]
      ELSE IF Greater(goalsAgainst, goalsFor)
      THEN [base EXCEPT !.losses = @ + 1 * sign]
      ELSE [base EXCEPT !.draws = @ + 1 * sign, !.points = @ + 1 * sign]

-----------------------------------------------------------------------------
(* updateClassificationFromMatchChanges *)

\* map[entry.team_id] = entry: the entry passed in, not a copy.
AliasRef(i, n) == i

\* The object that map[entry.team_id] refers to for the i-th entry of a
\* table of n entries.  References 1..n are the entries passed in;
\* { ...entry } is a new object, reference n + i.
CopyRef(i, n) == n + i

\* map after the first forEach: for each team_id the copy of the last entry
\* carrying it.
ClassificationMap(cls) ==
  LET n == Len(cls)
  IN  [t \in {cls[i].team_id : i \in 1..n} |->
         CopyRef(CHOOSE i \in 1..n :
                   cls[i].team_id = t /\ \A j \in (i + 1)..n : cls[j].team_id # t,
                 n)]

\* applyMatchStats(map[teamId], ...): a TypeError when map holds no entry for
\* the team, else the object is changed in place.
ApplyAt(st, map, teamId, goalsFor, goalsAgainst, add) ==
  IF st.thrown THEN st
  ELSE IF teamId \notin DOMAIN map THEN [st EXCEPT !.thrown = TRUE]
  ELSE [st EXCEPT !.heap[map[teamId]] =
                     applyMatchStats(@, goalsFor, goalsAgainst, add)]

\* The old match's counterpart in the new list.
FindNewMatch(news, oldMatch) == FindIndexById(news, oldMatch.id)

\* The score pair did not change.
ScoreUnchanged(oldHS, oldAS, newHS, newAS) == oldHS = newHS /\ oldAS = newAS

\* One score set is taken for a result.
EitherSet(hs, aw) == hs # Null \/ aw # Null

\* Both scores are set.
Finished(hs, aw) == hs # Null /\ aw # Null

\* A loop body that adds every finished new match again, changed or not.
UpdateStepReapply(st, map, oldMatch, news) ==
  LET k == FindIndexById(news, oldMatch.id)
  IN  IF k = 0 THEN st
      ELSE IF Finished(news[k].home_score, news[k].away_score)
      THEN ApplyAt(ApplyAt(st, map, news[k].home_team_id,
                           Val(news[k].home_score), Val(news[k].away_score), TRUE),
                   map, news[k].away_team_id,
                   Val(news[k].away_score), Val(news[k].home_score), TRUE)
      ELSE st

\* The body of oldMatches.forEach for one old match.
UpdateStep(st, map, oldMatch, news) ==
  LET k == FindNewMatch(news, oldMatch)
  IN  IF k = 0 THEN st
      ELSE
        LET newMatch == news[k]
            oldHS == oldMatch.home_score
            oldAS == oldMatch.away_score
            newHS == newMatch.home_score
            newAS == newMatch.away_score
            removed ==
              IF Finished(oldHS, oldAS)
              THEN ApplyAt(ApplyAt(st, map, oldMatch.home_team_id,
                                   Val(oldHS), Val(oldAS), FALSE),
                           map, oldMatch.away_team_id, Val(oldAS), Val(oldHS), FALSE)
              ELSE st
            added ==
              IF Finished(newHS, newAS)
              THEN ApplyAt(ApplyAt(removed, map, newMatch.home_team_id,
                                   Val(newHS), Val(newAS), TRUE),
                           map, newMatch.away_team_id, Val(newAS), Val(newHS), TRUE)
              ELSE removed
        IN  IF ScoreUnchanged(oldHS, oldAS, newHS, newAS) THEN st
            ELSE IF removed.thrown THEN removed
            ELSE added

RECURSIVE UpdateLoop(_, _, _, _, _)
UpdateLoop(st, map, olds, news, k) ==
  IF k > Len(olds) \/ st.thrown THEN st
  ELSE UpdateLoop(UpdateStep(st, map, olds[k], news), map, olds, news, k + 1)

\* No recomputation: goal_diff stays as it came in.
KeepGoalDiff(heap, map) == heap

\* Recalcula saldo de gols: every object of map.
RecomputeGoalDiff(heap, map) ==
  [r \in DOMAIN heap |->
     IF r \in Range(map)
     THEN [heap[r] EXCEPT !.goal_diff =
                            Minus(heap[r].goals_for, heap[r].goals_against)]
     ELSE heap[r]]

\* The call: thrown (a TypeError left the function), ret (the table
\* returned) and kept (the entries passed in, as the call leaves them).
updateClassificationFromMatchChanges(cls, olds, news) ==
  LET n == Len(cls)
      map == ClassificationMap(cls)
      looped == UpdateLoop([heap |-> cls \o cls, thrown |-> FALSE], map, olds, news, 1)
      heap == IF looped.thrown THEN looped.heap
              ELSE RecomputeGoalDiff(looped.heap, map)
  IN  [thrown |-> looped.thrown,
       ret |-> IF looped.thrown THEN <<>>
               ELSE ObjectValues([t \in DOMAIN map |-> heap[map[t]]]),
       kept |-> SubSeq(heap, 1, n)]

-----------------------------------------------------------------------------
(* computeClassification *)

ZeroEntry(id) ==
  [team_id |-> id, points |-> 0, games |-> 0, wins |-> 0, draws |-> 0,
   losses |-> 0, goals_for |-> 0, goals_against |-> 0, goal_diff |-> 0]

\* A map that misses the last team of the list.
InitialMapWithoutLast(ts) ==
  [t \in {ts[i].id : i \in 1..(Len(ts) - 1)} |-> ZeroEntry(t)]

\* map after teams.forEach
InitialMap(ts) == [t \in {ts[i].id : i \in 1..Len(ts)} |-> ZeroEntry(t)]

\* What the loop body adds to homeStats.
HomeStats(e, hs, aw) ==
  LET base == [e EXCEPT !.games = @ + 1, !.goals_for = @ + hs,
                        !.goals_against = @ + aw]
  IN  IF hs > aw THEN [base EXCEPT !.wins = @ + 1, !.points = @ + 3]
      ELSE IF hs < aw THEN [base EXCEPT !.losses = @ + 1]
      ELSE [base EXCEPT !.draws = @ + 1, !.points = @ + 1]

\* awayStats without the point of a draw.
AwayStatsNoDrawPoint(e, hs, aw) ==
  LET base == [e EXCEPT !.games = @ + 1, !.goals_for = @ + aw,
                        !.goals_against = @ + hs]
  IN  IF hs > aw THEN [base EXCEPT !.losses = @ + 1]
      ELSE IF hs < aw THEN [base EXCEPT !.wins = @ + 1, !.points = @ + 3]
      ELSE [base EXCEPT !.draws = @ + 1]

\* What the loop body adds to awayStats.
AwayStats(e, hs, aw) ==
  LET base == [e EXCEPT !.games = @ + 1, !.goals_for = @ + aw,
                        !.goals_against = @ + hs]
  IN  IF hs > aw THEN [base EXCEPT !.losses = @ + 1]
      ELSE IF hs < aw THEN [base EXCEPT !.wins = @ + 1, !.points = @ + 3]
      ELSE [base EXCEPT !.draws = @ + 1, !.points = @ + 1]

\* A match is skipped when one of its scores is null.
Skipped(match) == match.home_score = Null \/ match.away_score = Null

\* A loop body that passes over a match of a team that is not in map.
CountMatchSkipUnknown(st, match) ==
  IF st.thrown \/ match.home_score = Null \/ match.away_score = Null THEN st
  ELSE IF \/ match.home_team_id \notin DOMAIN st.map
          \/ match.away_team_id \notin DOMAIN st.map
  THEN st
  ELSE [st EXCEPT !.map =
          [[st.map EXCEPT ![match.home_team_id] =
              applyMatchStats(@, Val(match.home_score), Val(match.away_score), TRUE)]
             EXCEPT ![match.away_team_id] =
              applyMatchStats(@, Val(match.away_score), Val(match.home_score), TRUE)]]

\* The body of matches.forEach for one match; homeStats.games++ on a team
\* that is not in map is a TypeError.
CountMatch(st, match) ==
  IF st.thrown \/ Skipped(match) THEN st
  ELSE IF \/ match.home_team_id \notin DOMAIN st.map
          \/ match.away_team_id \notin DOMAIN st.map
  THEN [st EXCEPT !.thrown = TRUE]
  ELSE LET hs == Val(match.home_score)
           aw == Val(match.away_score)
           m1 == [st.map EXCEPT ![match.home_team_id] = HomeStats(@, hs, aw)]
       IN  [st EXCEPT !.map = [m1 EXCEPT ![match.away_team_id] = AwayStats(@, hs, aw)]]

RECURSIVE CountLoop(_, _, _)
CountLoop(st, ms, k) ==
  IF k > Len(ms) THEN st ELSE CountLoop(CountMatch(st, ms[k]), ms, k + 1)

\* A comparator that looks at the goal difference and the goals scored before
\* the wins.
CompareWinsLast(a, b, ts) ==
  IF b.points # a.points THEN b.points - a.points
  ELSE IF b.goal_diff # a.goal_diff THEN b.goal_diff - a.goal_diff
  ELSE IF b.goals_for # a.goals_for THEN b.goals_for - a.goals_for
  ELSE IF b.wins # a.wins THEN b.wins - a.wins
  ELSE localeCompare(TeamName(ts, a.team_id), TeamName(ts, b.team_id))

\* The comparator of classification.sort: points, wins, goal difference,
\* goals scored, then the team name.
CompareEntries(a, b, ts) ==
  IF b.points # a.points THEN b.points - a.points
  ELSE IF b.wins # a.wins THEN b.wins - a.wins
  ELSE IF b.goal_diff # a.goal_diff THEN b.goal_diff - a.goal_diff
  ELSE IF b.goals_for # a.goals_for THEN b.goals_for - a.goals_for
  ELSE localeCompare(TeamName(ts, a.team_id), TeamName(ts, b.team_id))

\* Calcula saldo de gols
WithGoalDiff(map) ==
  [t \in DOMAIN map |->
     [map[t] EXCEPT !.goal_diff = map[t].goals_for - map[t].goals_against]]

\* The call: thrown (a TypeError left the function) and ret (the table).
computeClassification(ts, ms) ==
  LET counted == CountLoop([map |-> InitialMap(ts), thrown |-> FALSE], ms, 1)
      unsorted == ObjectValues(WithGoalDiff(counted.map))
      cmp == [p \in Range(unsorted) \X Range(unsorted) |->
                CompareEntries(p[1], p[2], ts)]
  IN  [thrown |-> counted.thrown,
       ret |-> IF counted.thrown THEN <<>> ELSE Sort(unsorted, cmp)]

-----------------------------------------------------------------------------
(* Calls of the two functions on bounded inputs: specification Spec *)

\* The fixtures of the match lists handed to the functions.
CallFixtures ==
  << [id |-> 1, home_team_id |-> 1, away_team_id |-> 2],
     [id |-> 2, home_team_id |-> 2, away_team_id |-> 3] >>

\* A fixture list with the score pairs sc[i] = <<home_score, away_score>>.
WithScores(fx, sc) ==
  [i \in 1..Len(fx) |->
     [id |-> fx[i].id, home_team_id |-> fx[i].home_team_id,
      away_team_id |-> fx[i].away_team_id,
      home_score |-> sc[i][1], away_score |-> sc[i][2]]]

ScoreLists(fx) == [1..Len(fx) -> Scores \X Scores]

\* A table that is not the standings of the match list: every counter is
\* larger and goal_diff is left as it was (stale).
Foreign(tbl) ==
  [i \in 1..Len(tbl) |->
     [tbl[i] EXCEPT !.points = @ + 4, !.games = @ + 2, !.wins = @ + 1,
                    !.draws = @ + 1, !.goals_for = @ + 3, !.goals_against = @ + 1]]

\* A table that lacks the entry of team 3.
Partial(tbl) == SelectSeq(tbl, LAMBDA e : e.team_id # 3)

DropLast(ms) == SubSeq(ms, 1, Len(ms) - 1)

Reverse(ms) == [i \in 1..Len(ms) |-> ms[Len(ms) + 1 - i]]

\* The score lists that differ from sc in exactly one match.
OneMatchChanged(sc) ==
  {[sc EXCEPT ![i] = p] : i \in DOMAIN sc, p \in (Scores \X Scores)} \ {sc}

\* Two lists of the same fixtures with any scores, and the table computed
\* from the old list.
InitSameFixtures ==
  \E so \in ScoreLists(CallFixtures) :
    /\ oldMatches = WithScores(CallFixtures, so)
    /\ classification = computeClassification(Teams, oldMatches).ret
    /\ \E sn \in ScoreLists(CallFixtures) : matches = WithScores(CallFixtures, sn)

\* A table that is not the standings of the old list (other counters and a
\* stale goal_diff, or no entry for team 3), with a new list that changes at
\* most one match.
InitOtherTable ==
  \E so \in ScoreLists(CallFixtures) :
    /\ oldMatches = WithScores(CallFixtures, so)
    /\ \E computed \in {computeClassification(Teams, oldMatches).ret} :
         classification \in {Foreign(computed), Partial(computed)}
    /\ \E sn \in {so} \cup OneMatchChanged(so) :
         matches = WithScores(CallFixtures, sn)

\* A new list with a fixture that the old list lacks.
InitNewFixture ==
  \E so \in ScoreLists(DropLast(CallFixtures)) :
    /\ oldMatches = WithScores(DropLast(CallFixtures), so)
    /\ classification = computeClassification(Teams, oldMatches).ret
    /\ \E sn \in ScoreLists(CallFixtures) : matches = WithScores(CallFixtures, sn)

\* An old list with a fixture that the new list lacks.
InitRemovedFixture ==
  \E so \in ScoreLists(CallFixtures) :
    /\ oldMatches = WithScores(CallFixtures, so)
    /\ classification = computeClassification(Teams, oldMatches).ret
    /\ \E sn \in ScoreLists(DropLast(CallFixtures)) :
         matches = WithScores(DropLast(CallFixtures), sn)

\* The new list in another order than the old list, changing at most one
\* match.
InitReordered ==
  \E so \in ScoreLists(CallFixtures) :
    /\ oldMatches = WithScores(CallFixtures, so)
    /\ classification = computeClassification(Teams, oldMatches).ret
    /\ \E sn \in {so} \cup OneMatchChanged(so) :
         matches = Reverse(WithScores(CallFixtures, sn))

Init ==
  /\ OthersUnused
  /\ teams = Teams
  /\ \/ InitSameFixtures
     \/ InitReordered
     \/ InitOtherTable
     \/ InitNewFixture
     \/ InitRemovedFixture
  /\ ret = <<>>
  /\ op = "init"
  /\ error = ""

\* computeClassification(teams, matches)
Compute ==
  /\ op = "init"
  /\ \E r \in {computeClassification(teams, matches)} :
       /\ ret' = r.ret
       /\ op' = IF r.thrown THEN "compute_thrown" ELSE "compute"
       /\ error' = IF r.thrown THEN TypeError ELSE ""
  /\ UNCHANGED <<teams, oldMatches, matches, classification, others>>

\* updateClassificationFromMatchChanges(classification, oldMatches, matches);
\* classification is afterwards what the call left of the entries passed in.
Update ==
  /\ op = "init"
  /\ \E r \in {updateClassificationFromMatchChanges(classification, oldMatches, matches)} :
       /\ ret' = r.ret
       /\ op' = IF r.thrown THEN "update_thrown" ELSE "update"
       /\ error' = IF r.thrown THEN TypeError ELSE ""
       /\ classification' = r.kept
  /\ UNCHANGED <<teams, oldMatches, matches, others>>

Next == Compute \/ Update

Spec == Init /\ [][Next]_vars

-----------------------------------------------------------------------------
(* Standings of a stored match list: specification SpecSeason *)

\* The fixtures of matches.json; match 5 is one of excludedMatchIds.
SeasonFixtures ==
  << [id |-> 1, home_team_id |-> 1, away_team_id |-> 3],
     [id |-> 2, home_team_id |-> 3, away_team_id |-> 1],
     [id |-> 3, home_team_id |-> 2, away_team_id |-> 3],
     [id |-> 4, home_team_id |-> 3, away_team_id |-> 2],
     [id |-> 5, home_team_id |-> 2, away_team_id |-> 3] >>

\* The score pairs of a stored match: not played, or a result.
StoredScores ==
  {<<Null, Null>>} \cup {<<Num(h), Num(a)>> : h \in 0..MaxGoals, a \in 0..MaxGoals}

\* matches.json holds any results of the season's fixtures;
\* classification.json holds the table of a season without results.
InitSeason ==
  /\ OthersUnused
  /\ teams = Teams
  /\ oldMatches = <<>>
  /\ \E sc \in [1..Len(SeasonFixtures) -> StoredScores] :
       matches = WithScores(SeasonFixtures, sc)
  /\ classification = computeClassification(Teams, <<>>).ret
  /\ ret = <<>>
  /\ op = "init"
  /\ error = ""

\* POST /admin/update_classification: the table is computed from the stored
\* matches and stored.
handleAdminUpdateClassification ==
  \E r \in {computeClassification(teams, matches)} :
    /\ classification' = IF r.thrown THEN classification ELSE r.ret
    /\ ret' = r.ret
    /\ op' = IF r.thrown THEN "admin_classification_thrown"
             ELSE "admin_classification"
    /\ error' = IF r.thrown THEN TypeError ELSE ""
    /\ UNCHANGED <<teams, oldMatches, matches, others>>

NextSeason == handleAdminUpdateClassification

SpecSeason == InitSeason /\ [][NextSeason]_vars

-----------------------------------------------------------------------------
(* The admin result entry on the stored data: specification SpecAdmin *)

\* The fixtures of matches.json in SpecAdmin.
AdminFixtures == CallFixtures

\* The values of a score field of the admin form: empty or the digits of an
\* integer, which may be negative (the handler checks no range).
FormValues == {""} \cup {ToString(n) : n \in -1..MaxGoals}

\* parseInt of a string: the integer whose digits it is, NaN for a string
\* that starts with no digit.
parseInt(str) ==
  IF str = "x" THEN NaN
  ELSE CHOOSE n \in -1..(MaxGoals + 2) : ToString(n) = str

\* hVal !== '' ? parseInt(hVal) : null
FormScore(str) == IF str # "" THEN Num(parseInt(str)) ELSE Null

\* dataStore.matches after the forEach over the form: form is a function
\* from the match ids it has both fields for to <<hVal, aVal>>.
ApplyForm(ms, form) ==
  [i \in 1..Len(ms) |->
     IF ms[i].id \in DOMAIN form
     THEN [ms[i] EXCEPT !.home_score = FormScore(form[ms[i].id][1]),
                        !.away_score = FormScore(form[ms[i].id][2])]
     ELSE ms[i]]

\* What Array.prototype.sort makes of a comparator's result: NaN is +0.
SortOrder(v) == IF v = NaN THEN 0 ELSE v

\* The comparator of updatedClassification.sort: no team name at the end.
CompareStored(a, b) ==
  IF b.points # a.points THEN b.points - a.points
  ELSE IF b.wins # a.wins THEN b.wins - a.wins
  ELSE IF StrictlyDiffer(b.goal_diff, a.goal_diff)
  THEN SortOrder(Minus(b.goal_diff, a.goal_diff))
  ELSE IF StrictlyDiffer(b.goals_for, a.goals_for)
  THEN SortOrder(Minus(b.goals_for, a.goals_for))
  ELSE 0

\* JSON.stringify and, at the next request, JSON.parse of the matches: a NaN
\* score is read back as null.
StoredMatches(ms) ==
  [i \in 1..Len(ms) |->
     [ms[i] EXCEPT !.home_score = IF @ = Num(NaN) THEN Null ELSE @,
                   !.away_score = IF @ = Num(NaN) THEN Null ELSE @]]

\* JSON.stringify and JSON.parse of the table: a NaN field is read back as
\* null.
StoredTable(tbl) ==
  LET Stored(v) == IF v = NaN THEN NullField ELSE v
  IN [i \in 1..Len(tbl) |->
        [tbl[i] EXCEPT !.goals_for = Stored(@), !.goals_against = Stored(@),
                       !.goal_diff = Stored(@)]]

InitAdmin ==
  /\ OthersUnused
  /\ teams = Teams
  /\ oldMatches = <<>>
  /\ matches = WithScores(AdminFixtures,
                          [i \in 1..Len(AdminFixtures) |-> <<Null, Null>>])
  /\ classification = computeClassification(Teams, matches).ret
  /\ ret = <<>>
  /\ op = "init"
  /\ error = ""

\* Largest number of games the stored table counts for a team.
MaxGames == 2

\* POST /admin/update_matches with the two score fields of one match, each
\* one of values: the matches are stored, then the table is updated from the
\* score changes of the matches in memory, sorted and stored; requests that
\* take a games counter beyond MaxGames are left out.
AdminUpdateMatches(values) ==
  \E id \in {matches[i].id : i \in 1..Len(matches)},
     hVal \in values, aVal \in values :
    \E newMatches \in {ApplyForm(matches, [k \in {id} |-> <<hVal, aVal>>])} :
      \E r \in {updateClassificationFromMatchChanges(classification, matches, newMatches)} :
        \E updatedClassification \in
             {Sort(r.ret, [p \in Range(r.ret) \X Range(r.ret) |->
                             CompareStored(p[1], p[2])])} :
          /\ \A i \in 1..Len(r.ret) : r.ret[i].games <= MaxGames
          /\ matches' = StoredMatches(newMatches)
          /\ classification' = IF r.thrown THEN classification
                               ELSE StoredTable(updatedClassification)
          /\ ret' = IF r.thrown THEN <<>> ELSE StoredTable(updatedClassification)
          /\ op' = IF r.thrown THEN "admin_matches_thrown" ELSE "admin_matches"
          /\ error' = IF r.thrown THEN TypeError ELSE ""
          /\ UNCHANGED <<teams, oldMatches, others>>

\* POST /admin/update_matches with fields that are empty or integers.
handleAdminUpdateMatches == AdminUpdateMatches(FormValues)

NextAdmin == handleAdminUpdateMatches \/ handleAdminUpdateClassification

SpecAdmin == InitAdmin /\ [][NextAdmin]_vars

-----------------------------------------------------------------------------
(* The admin result entry on a stored table that lacks a team: specification
   SpecStale *)

\* classification.json has no entry for team 3.
InitStale ==
  /\ OthersUnused
  /\ teams = Teams
  /\ oldMatches = <<>>
  /\ matches = WithScores(AdminFixtures,
                          [i \in 1..Len(AdminFixtures) |-> <<Null, Null>>])
  /\ classification = Partial(computeClassification(Teams, matches).ret)
  /\ ret = <<>>
  /\ op = "init"
  /\ error = ""

NextStale == handleAdminUpdateMatches \/ handleAdminUpdateClassification

SpecStale == InitStale /\ [][NextStale]_vars

-----------------------------------------------------------------------------
(* The admin result entry with fields that are no numbers: specification
   SpecAnyField *)

\* The values of a score field: empty, an integer, or no number.
AnyFieldValues == {"", "1", "x"}

\* POST /admin/update_matches with fields that may be no numbers.
handleAdminUpdateMatchesAnyField == AdminUpdateMatches(AnyFieldValues)

NextAnyField ==
  handleAdminUpdateMatchesAnyField \/ handleAdminUpdateClassification

SpecAnyField == InitAdmin /\ [][NextAnyField]_vars

-----------------------------------------------------------------------------
(* computeClassification on matches of teams that may be missing from the
   team list: specification SpecRef *)

\* The team lists: complete, without team 3, without team 1.
RefTeamLists == {Teams, DropLast(Teams), Tail(Teams)}

InitRef ==
  /\ OthersUnused
  /\ teams \in RefTeamLists
  /\ oldMatches = <<>>
  /\ \E sc \in ScoreLists(CallFixtures) : matches = WithScores(CallFixtures, sc)
  /\ classification = <<>>
  /\ ret = <<>>
  /\ op = "init"
  /\ error = ""

NextRef == Compute

SpecRef == InitRef /\ [][NextRef]_vars

-----------------------------------------------------------------------------
(* handleRanking: the ranking of the presenters' predictions *)

\* Determine result sign: 'home', 'draw', 'away', without the draw.
resultSignNoDraw(home, away) == IF home > away THEN "home" ELSE "away"

\* resultSign
resultSign(home, away) ==
  IF home > away THEN "home" ELSE IF home < away THEN "away" ELSE "draw"

\* parsedUrl.query.round ? parseInt(parsedUrl.query.round, 10) : null
SelectedRound(query) == IF query # "" THEN Num(parseInt(query)) ELSE Null

\* The truth value of selectedRound: null and 0 are false.
Truthy(selectedRound) == selectedRound # Null /\ selectedRound[1] # 0

\* Only a prediction of a match that is not stored is ignored.
IgnoredUnlessStored(ms, k) == k = 0

\* if (!match || excludedMatchIds.has(match.id)) return, for the match found
\* at index k (0: not found).
Ignored(ms, k) == k = 0 \/ ms[k].id \in excludedMatchIds

\* if (selectedRound && match.round !== selectedRound) return
OtherRound(match, selectedRound) ==
  Truthy(selectedRound) /\ match.round # selectedRound[1]

\* One score set is taken for a result.
HasResultEitherSet(match) == match.home_score # Null \/ match.away_score # Null

\* match.home_score !== null && match.away_score !== null
HasResult(match) == match.home_score # Null /\ match.away_score # Null

\* The scoring of one prediction without the count of the misses.
ScorePredictionNoErrorCount(acc, pred, match, ts) ==
  LET predSign == resultSign(Val(pred.home_score), Val(pred.away_score))
      realSign == resultSign(Val(match.home_score), Val(match.away_score))
      exact == pred.home_score = match.home_score /\ pred.away_score = match.away_score
      points == IF exact THEN 3 ELSE IF predSign = realSign THEN 1 ELSE 0
      detail == [round |-> match.round,
                 confrontation |-> <<TeamName(ts, match.home_team_id),
                                     TeamName(ts, match.away_team_id)>>,
                 prediction |-> <<pred.home_score, pred.away_score>>,
                 result |-> <<match.home_score, match.away_score>>,
                 points |-> points]
  IN  [total |-> acc.total + points,
       exactCount |-> acc.exactCount + (IF exact THEN 1 ELSE 0),
       resultCount |-> acc.resultCount + (IF ~exact /\ predSign = realSign THEN 1 ELSE 0),
       errorCount |-> acc.errorCount,
       details |-> Append(acc.details, detail)]

\* The scoring of one prediction of a match with a result: the points, the
\* counter of its category, the total and the detail record.
ScorePrediction(acc, pred, match, ts) ==
  LET predSign == resultSign(Val(pred.home_score), Val(pred.away_score))
      realSign == resultSign(Val(match.home_score), Val(match.away_score))
      exact == pred.home_score = match.home_score /\ pred.away_score = match.away_score
      points == IF exact THEN 3 ELSE IF predSign = realSign THEN 1 ELSE 0
      detail == [round |-> match.round,
                 confrontation |-> <<TeamName(ts, match.home_team_id),
                                     TeamName(ts, match.away_team_id)>>,
                 prediction |-> <<pred.home_score, pred.away_score>>,
                 result |-> <<match.home_score, match.away_score>>,
                 points |-> points]
  IN  [total |-> acc.total + points,
       exactCount |-> acc.exactCount + (IF exact THEN 1 ELSE 0),
       resultCount |-> acc.resultCount + (IF ~exact /\ predSign = realSign THEN 1 ELSE 0),
       errorCount |-> acc.errorCount + (IF ~exact /\ predSign # realSign THEN 1 ELSE 0),
       details |-> Append(acc.details, detail)]

\* The body of the forEach over a user's predictions.
RankStep(acc, pred, ms, ts, selectedRound) ==
  LET k == FindIndexById(ms, pred.match_id)
  IN  IF Ignored(ms, k) THEN acc
      ELSE IF OtherRound(ms[k], selectedRound) THEN acc
      ELSE IF HasResult(ms[k]) THEN ScorePrediction(acc, pred, ms[k], ts)
      ELSE acc

RECURSIVE RankLoop(_, _, _, _, _, _)
RankLoop(acc, preds, ms, ts, selectedRound, k) ==
  IF k > Len(preds) THEN acc
  ELSE RankLoop(RankStep(acc, preds[k], ms, ts, selectedRound),
                preds, ms, ts, selectedRound, k + 1)

\* The row pushed for the user u.
RankingRow(u, preds, ms, ts, selectedRound) ==
  LET own == SelectSeq(preds, LAMBDA p : p.user_id = u.id)
      acc == RankLoop([total |-> 0, exactCount |-> 0, resultCount |-> 0,
                       errorCount |-> 0, details |-> <<>>],
                      own, ms, ts, selectedRound, 1)
  IN  [user |-> u, total |-> acc.total, exactCount |-> acc.exactCount,
       resultCount |-> acc.resultCount, errorCount |-> acc.errorCount,
       details |-> acc.details]

\* A comparator that puts the smaller total first.
CompareTotalsAscending(a, b) == a.total - b.total

\* The comparator of ranking.sort
CompareTotals(a, b) == b.total - a.total

\* The ranking list the page is built from.
handleRanking(us, preds, ms, ts, query) ==
  LET selectedRound == SelectedRound(query)
      presenters == SelectSeq(us, LAMBDA u : ~u.isAdmin)
      ranking == [i \in 1..Len(presenters) |->
                    RankingRow(presenters[i], preds, ms, ts, selectedRound)]
  IN  Sort(ranking, [p \in Range(ranking) \X Range(ranking) |->
                       CompareTotals(p[1], p[2])])

-----------------------------------------------------------------------------
(* GET /ranking on bounded data: specification SpecRanking *)

\* Largest score of a prediction and of a result in the ranking.
MaxScore == 2

\* Largest number of rows of the predictions table.
MaxPredictions == 2

\* users.json: the admin and two presenters.
RankUsers ==
  << [id |-> 1, isAdmin |-> TRUE],
     [id |-> 2, isAdmin |-> FALSE],
     [id |-> 3, isAdmin |-> FALSE] >>

\* matches.json: match 1 of round 1, match 2 of round 2 and match 5 of round
\* 1, one of excludedMatchIds.
RankFixtures ==
  << [id |-> 1, round |-> 1, home_team_id |-> 1, away_team_id |-> 2],
     [id |-> 2, round |-> 2, home_team_id |-> 2, away_team_id |-> 3],
     [id |-> 5, round |-> 1, home_team_id |-> 3, away_team_id |-> 1] >>

\* A stored match: the fixture with a pair of scores.
StoredMatch(f, pair) == f @@ [home_score |-> pair[1], away_score |-> pair[2]]

\* The round of the query string: none, a round, or 0.
RoundQueries == {""} \cup {ToString(r) : r \in 0..2}

\* The scores of a stored match in the ranking: null or a number.
RankScores == {Null} \cup {Num(n) : n \in 0..MaxScore}

\* The sequences over S of length at most n.
SeqUpTo(S, n) == UNION {[1..k -> S] : k \in 0..n}

\* One presenter's prediction of match 1, with any scores against any stored
\* scores of match 1; the other matches have results.
InitScoring ==
  /\ \E pair \in RankScores \X RankScores :
       matches = << StoredMatch(RankFixtures[1], pair),
                    StoredMatch(RankFixtures[2], <<Num(0), Num(0)>>),
                    StoredMatch(RankFixtures[3], <<Num(1), Num(0)>>) >>
  /\ \E h \in 0..MaxScore, a \in 0..MaxScore :
       predictions = << [user_id |-> 2, match_id |-> 1,
                         home_score |-> Num(h), away_score |-> Num(a)] >>
  /\ arg \in RoundQueries

\* Up to MaxPredictions predictions of any user on any match (9 is the id of
\* no match), 1-0 or 0-1; match 1 is not played or ended 1-0.
InitFilter ==
  /\ \E pair \in {<<Null, Null>>, <<Num(1), Num(0)>>} :
       matches = << StoredMatch(RankFixtures[1], pair),
                    StoredMatch(RankFixtures[2], <<Num(0), Num(1)>>),
                    StoredMatch(RankFixtures[3], <<Num(1), Num(0)>>) >>
  /\ predictions \in
       SeqUpTo({[user_id |-> u, match_id |-> m,
                 home_score |-> Num(sc[1]), away_score |-> Num(sc[2])] :
                  u \in {1, 2, 3}, m \in {1, 2, 5, 9}, sc \in {<<1, 0>>, <<0, 1>>}},
               MaxPredictions)
  /\ arg \in {"", "0", "1"}

InitRanking ==
  /\ SiteUnused
  /\ teams = Teams
  /\ users = RankUsers
  /\ dbPredictions = <<>>
  /\ oldMatches = <<>>
  /\ classification = <<>>
  /\ InitScoring \/ InitFilter
  /\ ret = <<>>
  /\ op = "init"
  /\ error = ""

\* GET /ranking?round=arg
Ranking ==
  /\ op = "init"
  /\ ret' = handleRanking(users, predictions, matches, teams, arg)
  /\ op' = "ranking"
  /\ UNCHANGED <<teams, oldMatches, matches, classification, error, others>>

NextRanking == Ranking

SpecRanking == InitRanking /\ [][NextRanking]_vars

-----------------------------------------------------------------------------
(* computeTeamForm: the last 5 results of a team *)

\* finished.slice(0, 5) left out: every element is kept.
SliceAll(seq, n) == seq

\* seq.slice(0, n)
Slice(seq, n) == SubSeq(seq, 1, IF Len(seq) < n THEN Len(seq) ELSE n)

\* The filter of computeTeamForm: both scores set and the team played.
PlayedBy(m, teamId) ==
  /\ m.home_score # Null /\ m.away_score # Null
  /\ (m.home_team_id = teamId \/ m.away_team_id = teamId)

\* The comparator of finished.sort: new Date(b.date) - new Date(a.date).  A
\* date is the number of its day.
CompareDates(a, b) == b.date - a.date

\* The result seen from the home side whichever side the team played on.
FormResultHomeSide(m, teamId) ==
  IF Val(m.home_score) > Val(m.away_score) THEN "V"
  ELSE IF Val(m.home_score) < Val(m.away_score) THEN "D"
  ELSE "E"

\* The result of the match m from the perspective of the team.
FormResult(m, teamId) ==
  IF m.home_team_id = teamId
  THEN IF Val(m.home_score) > Val(m.away_score) THEN "V"
       ELSE IF Val(m.home_score) < Val(m.away_score) THEN "D"
       ELSE "E"
  ELSE IF Val(m.away_score) > Val(m.home_score) THEN "V"
       ELSE IF Val(m.away_score) < Val(m.home_score) THEN "D"
       ELSE "E"

\* while (form.length < 5) form.push('-')
PadForm(form) ==
  form \o [i \in 1..(IF Len(form) < 5 THEN 5 - Len(form) ELSE 0) |-> "-"]

computeTeamForm(teamId, ms) ==
  LET finished == SelectSeq(ms, LAMBDA m : PlayedBy(m, teamId))
      sorted == Sort(finished, [p \in Range(finished) \X Range(finished) |->
                                 CompareDates(p[1], p[2])])
      top == Slice(sorted, 5)
  IN  PadForm([i \in 1..Len(top) |-> FormResult(top[i], teamId)])

-----------------------------------------------------------------------------
(* Calls of computeTeamForm on bounded match lists: specification SpecForm *)

\* matches.json: six matches of team 1, at home and away, and one match
\* without it.
FormFixtures ==
  << [id |-> 1, round |-> 1, home_team_id |-> 1, away_team_id |-> 2],
     [id |-> 2, round |-> 2, home_team_id |-> 3, away_team_id |-> 1],
     [id |-> 3, round |-> 3, home_team_id |-> 1, away_team_id |-> 3],
     [id |-> 4, round |-> 4, home_team_id |-> 2, away_team_id |-> 1],
     [id |-> 5, round |-> 5, home_team_id |-> 1, away_team_id |-> 2],
     [id |-> 6, round |-> 6, home_team_id |-> 3, away_team_id |-> 1],
     [id |-> 7, round |-> 7, home_team_id |-> 2, away_team_id |-> 3] >>

\* The days of the seven matches: in the order of the list, in the reverse
\* order, all on one day, and out of order with two matches on one day.
FormDates ==
  { <<1, 2, 3, 4, 5, 6, 7>>,
    <<7, 6, 5, 4, 3, 2, 1>>,
    <<1, 1, 1, 1, 1, 1, 1>>,
    <<3, 1, 4, 1, 5, 2, 6>> }

\* The score pairs of a match: not played, a home win, an away win, a draw.
FormPairs ==
  { <<Null, Null>>, <<Num(1), Num(0)>>, <<Num(0), Num(1)>>, <<Num(0), Num(0)>> }

\* The score pairs with exactly one score set.
HalfSetPairs == { <<Num(1), Null>>, <<Null, Num(1)>> }

\* The team ids asked for; 4 is the id of no team.
FormTeamIds == {1, 2, 4}

InitForm ==
  /\ SiteUnused
  /\ teams = Teams
  /\ users = <<>>
  /\ predictions = <<>>
  /\ dbPredictions = <<>>
  /\ oldMatches = <<>>
  /\ classification = <<>>
  /\ \E dates \in FormDates :
       \E sc \in [1..Len(FormFixtures) -> FormPairs \cup HalfSetPairs] :
         /\ \A i \in 2..Len(FormFixtures) : sc[i] \in FormPairs
         /\ sc[Len(FormFixtures)] \in {<<Null, Null>>, <<Num(1), Num(0)>>}
         /\ matches = [i \in 1..Len(FormFixtures) |->
                         StoredMatch(FormFixtures[i] @@ [date |-> dates[i]], sc[i])]
  /\ arg \in FormTeamIds
  /\ ret = <<>>
  /\ op = "init"
  /\ error = ""

\* computeTeamForm(arg, matches)
Form ==
  /\ op = "init"
  /\ ret' = computeTeamForm(arg, matches)
  /\ op' = "form"
  /\ UNCHANGED <<teams, oldMatches, matches, classification, error, others>>

NextForm == Form

SpecForm == InitForm /\ [][NextForm]_vars

-----------------------------------------------------------------------------
(* handleSimulacao: the fixtures offered for simulation *)

\* A correspondence by the two teams alone, whatever the round.
SameTeams(m, item) == m.home_team_id = item.home /\ m.away_team_id = item.away

\* m.round === item.round && m.home_team_id === item.home &&
\* m.away_team_id === item.away
SameFixture(m, item) ==
  m.round = item.round /\ m.home_team_id = item.home /\ m.away_team_id = item.away

\* existingMatches.find(...): index of the first match of the fixture, 0 when
\* none.
FindFixture(ms, item) ==
  IF \E i \in 1..Len(ms) : SameFixture(ms[i], item)
  THEN CHOOSE i \in 1..Len(ms) :
         SameFixture(ms[i], item) /\ \A j \in 1..(i - 1) : ~SameFixture(ms[j], item)
  ELSE 0

\* The predicate of fullSchedule.filter.
Simulatable(ms, item) ==
  LET found == FindFixture(ms, item)
  IN  IF found = 0 THEN TRUE
      ELSE ms[found].home_score = Null \/ ms[found].away_score = Null

\* The base classification written back to classification.json.
WriteBackBase(stored, base) == base

\* classification.json after the request: the handler renders the base
\* classification and calls no writeJSON, so the stored table stays.
KeptBySimulacao(stored, base) == stored

\* What the page is rendered from: the schedule and the base classification.
handleSimulacao(ts, ms, schedule) ==
  LET base == computeClassification(ts, ms)
  IN  [thrown |-> base.thrown,
       schedule |-> SelectSeq(schedule, LAMBDA item : Simulatable(ms, item)),
       classification |-> base.ret]

-----------------------------------------------------------------------------
(* GET /simulacao on bounded stored matches: specification SpecSim *)

\* matches.json: one match per round and pair of teams.
SimFixtures ==
  << [id |-> 1, round |-> 1, home_team_id |-> 1, away_team_id |-> 2],
     [id |-> 2, round |-> 2, home_team_id |-> 2, away_team_id |-> 3],
     [id |-> 3, round |-> 3, home_team_id |-> 3, away_team_id |-> 1],
     [id |-> 4, round |-> 4, home_team_id |-> 2, away_team_id |-> 1] >>

\* The schedule of the simulation: match 2, match 3 with the sides swapped,
\* match 4, and the teams of match 1 in a round that is not stored.
fullSchedule ==
  << [round |-> 2, home |-> 2, away |-> 3],
     [round |-> 3, home |-> 1, away |-> 3],
     [round |-> 4, home |-> 2, away |-> 1],
     [round |-> 5, home |-> 1, away |-> 2] >>

\* The score pairs of a stored match: not played, one score set, a result.
SimPairs ==
  { <<Null, Null>>, <<Num(1), Null>>, <<Null, Num(0)>>,
    <<Num(1), Num(0)>>, <<Num(0), Num(0)>> }

InitSim ==
  /\ OthersUnused
  /\ teams = Teams
  /\ oldMatches = <<>>
  /\ classification = <<>>
  /\ \E sc \in [1..Len(SimFixtures) -> SimPairs] :
       matches = [i \in 1..Len(SimFixtures) |-> StoredMatch(SimFixtures[i], sc[i])]
  /\ ret = <<>>
  /\ op = "init"
  /\ error = ""

\* GET /simulacao
Simulacao ==
  /\ \E r \in {handleSimulacao(teams, matches, fullSchedule)} :
       /\ ret' = IF r.thrown THEN <<>>
                 ELSE [schedule |-> r.schedule, classification |-> r.classification]
       /\ op' = IF r.thrown THEN "simulacao_thrown" ELSE "simulacao"
       /\ error' = IF r.thrown THEN TypeError ELSE ""
       /\ classification' = IF r.thrown THEN classification
                            ELSE KeptBySimulacao(classification, r.classification)
  /\ UNCHANGED <<teams, oldMatches, matches, others>>

NextSim == Simulacao

SpecSim == InitSim /\ [][NextSim]_vars

-----------------------------------------------------------------------------
(* The simulation page between admin requests: specification SpecSite *)

\* matches.json: two fixtures of the simulation schedule.
SiteFixtures == << SimFixtures[2], SimFixtures[4] >>

InitSite ==
  /\ OthersUnused
  /\ teams = Teams
  /\ oldMatches = <<>>
  /\ matches = [i \in 1..Len(SiteFixtures) |->
                  StoredMatch(SiteFixtures[i], <<Null, Null>>)]
  /\ classification = computeClassification(Teams, matches).ret
  /\ ret = <<>>
  /\ op = "init"
  /\ error = ""

NextSite ==
  \/ handleAdminUpdateMatches
  \/ handleAdminUpdateClassification
  \/ Simulacao

SpecSite == InitSite /\ [][NextSite]_vars

-----------------------------------------------------------------------------
(* The prediction form: getNextRoundForAll and handlePalpitesPost *)

\* data.users.filter(u => !u.isAdmin)
Presenters(us) == SelectSeq(us, LAMBDA u : ~u.isAdmin)

\* roundsWithOpen with a match of excludedMatchIds counted like any other.
RoundsWithOpenAnyMatch(ms) ==
  {ms[i].round : i \in {j \in 1..Len(ms) :
                          ms[j].home_score = Null \/ ms[j].away_score = Null}}

\* roundsWithOpen: the rounds of the matches, not excluded, with a null score.
RoundsWithOpen(ms) ==
  {ms[i].round : i \in {j \in 1..Len(ms) :
                          /\ ms[j].id \notin excludedMatchIds
                          /\ ms[j].home_score = Null \/ ms[j].away_score = Null}}

\* roundMatches: the matches of round r that are not excluded.
RoundMatches(ms, r) ==
  SelectSeq(ms, LAMBDA m : m.round = r /\ m.id \notin excludedMatchIds)

\* data.predictions.find(pr => pr.match_id === match.id && pr.user_id ===
\* p.id): the index of the first such prediction, 0 for undefined.
FindPrediction(preds, matchId, userId) ==
  LET hits == {i \in 1..Len(preds) : /\ preds[i].match_id = matchId
                                     /\ preds[i].user_id = userId}
  IN IF hits = {} THEN 0 ELSE CHOOSE i \in hits : \A j \in hits : i <= j

\* allPredicted of round r.
AllPredicted(ms, us, preds, r) ==
  LET roundMatches == RoundMatches(ms, r)
      presenters == Presenters(us)
  IN \A i \in 1..Len(roundMatches), k \in 1..Len(presenters) :
       FindPrediction(preds, roundMatches[i].id, presenters[k].id) # 0

\* The first open round some presenter has not predicted in full, or the
\* smallest open round; null when no round is open.
getNextRoundForAll(ms, us, preds) ==
  LET openRounds == RoundsWithOpen(ms)
      missing == {r \in openRounds : ~AllPredicted(ms, us, preds, r)}
      smallest(S) == CHOOSE r \in S : \A q \in S : r <= q
  IN IF openRounds = {} THEN Null
     ELSE IF missing # {} THEN Num(smallest(missing))
     ELSE Num(smallest(openRounds))

\* The matches handlePalpitesPost walks: those of the round, not excluded.
PostMatches(ms, round) ==
  SelectSeq(ms, LAMBDA m : m.round = round /\ m.id \notin excludedMatchIds)

\* maxId: the largest id of predictions.json, 0 when it is empty.
MaxId(preds) ==
  LET ids == {0} \cup {preds[i].id : i \in 1..Len(preds)}
  IN CHOOSE n \in ids : \A k \in ids : k <= n

\* The fields of the form read for presenter userId and match matchId are
\* both there and not empty; form is a function from <<userId, matchId>> to
\* <<hVal, aVal>>.
Filled(form, userId, matchId) ==
  /\ <<userId, matchId>> \in DOMAIN form
  /\ form[<<userId, matchId>>][1] # ""
  /\ form[<<userId, matchId>>][2] # ""

\* The body of the two forEach for one match and one presenter, always
\* pushing a new prediction.
PostStepAlwaysPush(st, form, matchId, userId) ==
  IF ~Filled(form, userId, matchId) THEN st
  ELSE LET h == Num(parseInt(form[<<userId, matchId>>][1]))
           a == Num(parseInt(form[<<userId, matchId>>][2]))
           entry == [match_id |-> matchId, home_score |-> h, away_score |-> a]
           list == IF userId \in DOMAIN st.predsByUser
                   THEN st.predsByUser[userId] ELSE <<>>
       IN [predictions |->
             Append(st.predictions,
                    [id |-> st.maxId + 1, match_id |-> matchId,
                     user_id |-> userId, home_score |-> h, away_score |-> a]),
           maxId |-> st.maxId + 1,
           predsByUser |->
             [u \in DOMAIN st.predsByUser \cup {userId} |->
                IF u = userId THEN Append(list, entry) ELSE st.predsByUser[u]]]

\* The body of the two forEach for one match and one presenter: st is
\* dataStore.predictions, maxId and predsByUser.
PostStep(st, form, matchId, userId) ==
  IF ~Filled(form, userId, matchId) THEN st
  ELSE LET h == Num(parseInt(form[<<userId, matchId>>][1]))
           a == Num(parseInt(form[<<userId, matchId>>][2]))
           k == FindPrediction(st.predictions, matchId, userId)
           entry == [match_id |-> matchId, home_score |-> h, away_score |-> a]
           list == IF userId \in DOMAIN st.predsByUser
                   THEN st.predsByUser[userId] ELSE <<>>
       IN [predictions |->
             IF k # 0
             THEN [st.predictions EXCEPT ![k].home_score = h,
                                         ![k].away_score = a]
             ELSE Append(st.predictions,
                         [id |-> st.maxId + 1, match_id |-> matchId,
                          user_id |-> userId, home_score |-> h,
                          away_score |-> a]),
           maxId |-> IF k # 0 THEN st.maxId ELSE st.maxId + 1,
           predsByUser |->
             [u \in DOMAIN st.predsByUser \cup {userId} |->
                IF u = userId THEN Append(list, entry) ELSE st.predsByUser[u]]]

\* matches.forEach(match => presenters.forEach(p => ...)) from pair n on,
\* the pairs counted match by match.
RECURSIVE PostLoop(_, _, _, _, _)
PostLoop(st, form, postMatches, presenters, n) ==
  IF n > Len(postMatches) * Len(presenters) THEN st
  ELSE PostLoop(PostStep(st, form,
                         postMatches[((n - 1) \div Len(presenters)) + 1].id,
                         presenters[((n - 1) % Len(presenters)) + 1].id),
                form, postMatches, presenters, n + 1)

\* DELETE FROM predictions WHERE user_id = ? AND match_id IN (SELECT id FROM
\* matches WHERE round = ?); the matches table holds the matches of
\* matches.json.
deletePredictionsForRoundAndUser(rows, ms, round, userId) ==
  SelectSeq(rows, LAMBDA row :
    ~(/\ row.user_id = userId
      /\ \E i \in 1..Len(ms) : ms[i].round = round /\ ms[i].id = row.match_id))

\* The INSERT of every prediction of the list, in order.
InsertPredictions(rows, userId, predictionsList) ==
  rows \o [i \in 1..Len(predictionsList) |->
             [match_id |-> predictionsList[i].match_id, user_id |-> userId,
              home_score |-> predictionsList[i].home_score,
              away_score |-> predictionsList[i].away_score]]

\* savePredictionsForRound run alone.
savePredictionsForRound(rows, ms, round, userId, predictionsList) ==
  InsertPredictions(deletePredictionsForRoundAndUser(rows, ms, round, userId),
                    userId, predictionsList)

\* Object.keys(predsByUser).forEach(uid => savePredictionsForRound(...)) with
\* every call run to its end: the calls are for different users, so their
\* deletes and inserts touch different rows.
RECURSIVE SaveAll(_, _, _, _)
SaveAll(rows, ms, round, predsByUser) ==
  IF DOMAIN predsByUser = {} THEN rows
  ELSE LET uid == CHOOSE u \in DOMAIN predsByUser :
                    \A v \in DOMAIN predsByUser : u <= v
       IN SaveAll(savePredictionsForRound(rows, ms, round, uid,
                                          predsByUser[uid]),
                  ms, round,
                  [u \in DOMAIN predsByUser \ {uid} |-> predsByUser[u]])

\* handlePalpitesPost on the stores: predictions.json, the predictions table
\* and what the request worked with.
handlePalpitesPost(ms, us, preds, rows, form) ==
  LET round == getNextRoundForAll(ms, us, preds)
  IN IF round = Null \/ Val(round) = 0
     THEN [round |-> round, predsByUser |-> <<>>,
           predictions |-> preds, dbPredictions |-> rows]
     ELSE LET st == PostLoop([predictions |-> preds, maxId |-> MaxId(preds),
                              predsByUser |-> <<>>],
                             form, PostMatches(ms, Val(round)),
                             Presenters(us), 1)
          IN [round |-> round, predsByUser |-> st.predsByUser,
              predictions |-> st.predictions,
              dbPredictions |->
                SaveAll(rows, ms, Val(round), st.predsByUser)]

-----------------------------------------------------------------------------
(* Prediction submissions one after the other: specification SpecPalpites *)

\* Largest number of (presenter, match) pairs one form has fields for.
MaxFields == 2

\* matches.json: matches 1 and 2 of round 1, match 5 of round 1, one of
\* excludedMatchIds, and match 3 of round 2.
PalpiteFixtures ==
  << [id |-> 1, round |-> 1, home_team_id |-> 1, away_team_id |-> 2],
     [id |-> 2, round |-> 1, home_team_id |-> 2, away_team_id |-> 3],
     [id |-> 5, round |-> 1, home_team_id |-> 3, away_team_id |-> 1],
     [id |-> 3, round |-> 2, home_team_id |-> 3, away_team_id |-> 2] >>

\* The stored scores of the four fixtures: nothing played; round 1 played but
\* for the excluded match; everything played but the excluded match.
PalpiteScores ==
  LET done == <<Num(1), Num(0)>>
      open == <<Null, Null>>
  IN { <<open, open, open, open>>, <<done, done, open, open>>,
       <<done, done, open, done>> }

\* The fields of one pair of the form: 1-0 or 0-1.
PalpiteFields == { <<"1", "0">>, <<"0", "1">> }

\* The forms: fields for at most MaxFields pairs of a presenter and a match
\* that is not excluded.
PalpiteForms ==
  LET pairs == {2, 3} \X {1, 2, 3}
  IN UNION {[S -> PalpiteFields] :
              S \in {T \in SUBSET pairs : Cardinality(T) <= MaxFields}}

\* predictions.json and the predictions table are empty, or hold the same
\* prediction, of id 7.
InitPalpites ==
  /\ SiteUnused
  /\ teams = Teams
  /\ users = RankUsers
  /\ oldMatches = <<>>
  /\ \E sc \in PalpiteScores :
       matches = [i \in 1..Len(PalpiteFixtures) |->
                    StoredMatch(PalpiteFixtures[i], sc[i])]
  /\ classification = <<>>
  /\ \E row \in {[match_id |-> 2, user_id |-> 3,
                  home_score |-> Num(1), away_score |-> Num(1)]} :
       \/ predictions = <<>> /\ dbPredictions = <<>>
       \/ predictions = << [id |-> 7] @@ row >> /\ dbPredictions = << row >>
  /\ arg = ""
  /\ ret = <<>>
  /\ op = "init"
  /\ error = ""

\* POST /palpites with any form, answered before the next request is sent;
\* predictions.json holds up to MaxPredictions predictions.
PalpitesPost ==
  /\ \E form \in PalpiteForms :
       \E r \in {handlePalpitesPost(matches, users, predictions,
                                    dbPredictions, form)} :
         /\ Len(r.predictions) <= MaxPredictions
         /\ predictions' = r.predictions
         /\ dbPredictions' = r.dbPredictions
         /\ ret' = [round |-> r.round, predsByUser |-> r.predsByUser]
         /\ op' = IF r.round = Null THEN "palpites_closed" ELSE "palpites"
  /\ UNCHANGED <<teams, oldMatches, matches, classification, error, users, arg,
                 site>>

NextPalpites == PalpitesPost

SpecPalpites == InitPalpites /\ [][NextPalpites]_vars

-----------------------------------------------------------------------------
(* One prediction submission on any stored predictions: specification
   SpecRound *)

\* The (presenter, match) pairs of SpecRound, match 5 being excluded.
RoundPairs == << <<2, 1>>, <<3, 1>>, <<2, 2>>, <<3, 2>>,
                 <<2, 5>>, <<3, 5>>, <<2, 3>>, <<3, 3>> >>

\* predictions.json with a prediction, 1-0, for the pairs of S.
RoundFile(S) ==
  SelectSeq([i \in 1..Len(RoundPairs) |->
               [id |-> i, match_id |-> RoundPairs[i][2],
                user_id |-> RoundPairs[i][1],
                home_score |-> Num(1), away_score |-> Num(0)]],
            LAMBDA row : <<row.user_id, row.match_id>> \in S)

\* The predictions table with the rows of predictions.json.
RoundTable(file) ==
  [i \in 1..Len(file) |->
     [match_id |-> file[i].match_id, user_id |-> file[i].user_id,
      home_score |-> file[i].home_score, away_score |-> file[i].away_score]]

\* The forms of SpecRound: 0-1 for any pairs, fields of the admin, a pair
\* with an empty field.
RoundForms ==
  {[pair \in S |-> <<"0", "1">>] : S \in SUBSET Range(RoundPairs)}
    \cup {[pair \in {<<1, 1>>, <<2, 1>>} |-> <<"0", "0">>],
          [pair \in {<<2, 1>>, <<2, 3>>} |-> <<"", "1">>]}

\* Any stored scores of PalpiteScores, or match 1 played alone; any
\* predictions of RoundPairs in both stores.
InitRound ==
  /\ SiteUnused
  /\ teams = Teams
  /\ users = RankUsers
  /\ oldMatches = <<>>
  /\ \E sc \in PalpiteScores \cup {<< <<Num(1), Num(0)>>, <<Null, Null>>,
                                     <<Null, Null>>, <<Null, Null>> >>} :
       matches = [i \in 1..Len(PalpiteFixtures) |->
                    StoredMatch(PalpiteFixtures[i], sc[i])]
  /\ classification = <<>>
  /\ \E S \in SUBSET Range(RoundPairs) :
       /\ predictions = RoundFile(S)
       /\ dbPredictions = RoundTable(RoundFile(S))
  /\ arg = <<>>
  /\ ret = <<>>
  /\ op = "init"
  /\ error = ""

\* One POST /palpites with any form of RoundForms.
PalpitesPostOnce ==
  /\ op = "init"
  /\ \E form \in RoundForms :
       \E r \in {handlePalpitesPost(matches, users, predictions,
                                    dbPredictions, form)} :
         /\ predictions' = r.predictions
         /\ dbPredictions' = r.dbPredictions
         /\ ret' = [round |-> r.round, predsByUser |-> r.predsByUser]
         /\ op' = IF r.round = Null THEN "palpites_closed" ELSE "palpites"
         /\ arg' = form
  /\ UNCHANGED <<teams, oldMatches, matches, classification, error, users,
                 site>>

NextRound == PalpitesPostOnce

SpecRound == InitRound /\ [][NextRound]_vars

-----------------------------------------------------------------------------
(* Prediction submissions whose database work overlaps: specification
   SpecSave *)

\* Largest number of calls of savePredictionsForRound.
MaxCalls == 2

\* The forms of SpecSave: presenter 2 on matches 1 and 2 of round 1, in
\* part or in full, or presenter 3 on match 1.
SaveForms ==
  UNION {[S -> PalpiteFields] : S \in SUBSET {<<2, 1>>, <<2, 2>>}}
    \cup {[pair \in {<<3, 1>>} |-> <<"1", "0">>]}

\* The calls handlePalpitesPost makes, in the order of
\* Object.keys(predsByUser): step 0 is before the DELETE, step k before the
\* INSERT of row k of the list.
RECURSIVE NewCalls(_, _)
NewCalls(round, predsByUser) ==
  IF DOMAIN predsByUser = {} THEN <<>>
  ELSE LET uid == CHOOSE u \in DOMAIN predsByUser :
                    \A v \in DOMAIN predsByUser : u <= v
       IN << [round |-> round, userId |-> uid, list |-> predsByUser[uid],
              step |-> 0] >>
            \o NewCalls(round, [u \in DOMAIN predsByUser \ {uid} |->
                                  predsByUser[u]])

\* Nothing played, no prediction stored.
InitSave ==
  /\ teams = Teams
  /\ users = RankUsers
  /\ oldMatches = <<>>
  /\ matches = [i \in 1..Len(PalpiteFixtures) |->
                  StoredMatch(PalpiteFixtures[i], <<Null, Null>>)]
  /\ classification = <<>>
  /\ predictions = <<>>
  /\ dbPredictions = <<>>
  /\ calls = <<>>
  /\ sessions = <<>>
  /\ scorers = <<>>
  /\ arg = ""
  /\ ret = <<>>
  /\ op = "init"
  /\ error = ""

\* POST /palpites up to the calls of savePredictionsForRound, which go on
\* after the handler has returned; at most MaxCalls calls are made.
PalpitesSubmit ==
  /\ Len(calls) < MaxCalls
  /\ \E form \in SaveForms :
       \E r \in {handlePalpitesPost(matches, users, predictions,
                                    dbPredictions, form)} :
         \E new \in {IF r.round = Null THEN <<>>
                     ELSE NewCalls(Val(r.round), r.predsByUser)} :
           /\ Len(calls) + Len(new) <= MaxCalls
           /\ predictions' = r.predictions
           /\ calls' = calls \o new
           /\ ret' = [round |-> r.round, predsByUser |-> r.predsByUser]
           /\ op' = IF r.round = Null THEN "palpites_closed" ELSE "palpites"
  /\ UNCHANGED <<teams, oldMatches, matches, classification, error, users, arg,
                 dbPredictions, sessions, scorers>>

\* The DELETE of a call of savePredictionsForRound.
DeleteStep ==
  \E c \in 1..Len(calls) :
    /\ calls[c].step = 0
    /\ dbPredictions' =
         deletePredictionsForRoundAndUser(dbPredictions, matches,
                                          calls[c].round, calls[c].userId)
    /\ calls' = [calls EXCEPT ![c].step = 1]
    /\ op' = "delete"
    /\ UNCHANGED <<teams, oldMatches, matches, classification, error, users,
                   arg, predictions, ret, sessions, scorers>>

\* The next INSERT of a call of savePredictionsForRound.
InsertStep ==
  \E c \in 1..Len(calls) :
    /\ calls[c].step \in 1..Len(calls[c].list)
    /\ dbPredictions' =
         InsertPredictions(dbPredictions, calls[c].userId,
                           << calls[c].list[calls[c].step] >>)
    /\ calls' = [calls EXCEPT ![c].step = @ + 1]
    /\ op' = "insert"
    /\ UNCHANGED <<teams, oldMatches, matches, classification, error, users,
                   arg, predictions, ret, sessions, scorers>>

NextSave == PalpitesSubmit \/ DeleteStep \/ InsertStep

SpecSave == InitSave /\ [][NextSave]_vars

-----------------------------------------------------------------------------
(* Properties of the calls (specification Spec) *)

TeamIds(tbl) == {tbl[i].team_id : i \in 1..Len(tbl)}

HasEntry(tbl, t) == t \in TeamIds(tbl)

EntryOf(tbl, t) == tbl[CHOOSE i \in 1..Len(tbl) : tbl[i].team_id = t]

\* The counters of two entries agree (goal_diff apart).
SameCounters(a, b) ==
  /\ a.points = b.points /\ a.games = b.games /\ a.wins = b.wins
  /\ a.draws = b.draws /\ a.losses = b.losses
  /\ a.goals_for = b.goals_for /\ a.goals_against = b.goals_against

SameStats(a, b) == SameCounters(a, b) /\ a.goal_diff = b.goal_diff

\* Two match lists hold the same match ids with the same home and away
\* teams, in any order.
SameFixtures(olds, news) ==
  /\ Len(olds) = Len(news)
  /\ {olds[i].id : i \in 1..Len(olds)} = {news[i].id : i \in 1..Len(news)}
  /\ \A i \in 1..Len(olds), j \in 1..Len(news) :
       olds[i].id = news[j].id
         => /\ olds[i].home_team_id = news[j].home_team_id
            /\ olds[i].away_team_id = news[j].away_team_id

\* The match of the new list with the id of the i-th match of the old list.
NewOf(i) == matches[FindIndexById(matches, oldMatches[i].id)]

IsFinished(m) == m.home_score # Null /\ m.away_score # Null

IsHalfSet(m) == (m.home_score = Null) # (m.away_score = Null)

\* C1: for two match lists with the same fixtures, updating the standings
\* computed from the old list gives every team the same points, games, wins,
\* draws, losses, goals_for, goals_against and goal_diff as computing the
\* standings from the new list.
C1_DeltaEqualsRecompute ==
  ( /\ op = "update"
    /\ SameFixtures(oldMatches, matches)
    /\ classification = computeClassification(teams, oldMatches).ret )
  => \A recomputed \in {computeClassification(teams, matches).ret} :
       \A i \in 1..Len(teams) :
         /\ HasEntry(ret, teams[i].id)
         /\ SameStats(EntryOf(ret, teams[i].id), EntryOf(recomputed, teams[i].id))

\* C1 witness: an update from the computed table in which one match went from
\* one result to another and another match from unfinished to finished.
C1_Witness ==
  /\ op = "update"
  /\ SameFixtures(oldMatches, matches)
  /\ classification = computeClassification(teams, oldMatches).ret
  /\ \E i, j \in 1..Len(oldMatches) :
       /\ IsFinished(oldMatches[i]) /\ IsFinished(NewOf(i))
       /\ oldMatches[i].home_score # NewOf(i).home_score
       /\ ~IsFinished(oldMatches[j]) /\ IsFinished(NewOf(j))

\* Every match of the old list is in the new list with the same scores.
OldMatchesUnchanged ==
  \A i \in 1..Len(oldMatches) :
    LET k == FindIndexById(matches, oldMatches[i].id)
    IN  /\ k # 0
        /\ matches[k].home_score = oldMatches[i].home_score
        /\ matches[k].away_score = oldMatches[i].away_score

\* C2: a finished match of the new list whose id is not in the old list has
\* its full effect added to the entries of both of its teams (stated for an
\* update in which no other match changed).
C2_NewFixtureAdded ==
  \A k \in 1..Len(matches) :
    ( /\ op = "update"
      /\ OldMatchesUnchanged
      /\ FindIndexById(oldMatches, matches[k].id) = 0
      /\ IsFinished(matches[k]) )
    => /\ SameCounters(EntryOf(ret, matches[k].home_team_id),
                       applyMatchStats(EntryOf(classification, matches[k].home_team_id),
                                       Val(matches[k].home_score),
                                       Val(matches[k].away_score), TRUE))
       /\ SameCounters(EntryOf(ret, matches[k].away_team_id),
                       applyMatchStats(EntryOf(classification, matches[k].away_team_id),
                                       Val(matches[k].away_score),
                                       Val(matches[k].home_score), TRUE))

\* A match list with the scores of every half-set match cleared.
HalfSetCleared(ms) ==
  [i \in 1..Len(ms) |->
     IF IsHalfSet(ms[i])
     THEN [ms[i] EXCEPT !.home_score = Null, !.away_score = Null]
     ELSE ms[i]]

\* C4: a match with exactly one score set counts as not played:
\* computeClassification returns the table it returns with that match's
\* scores both unset, and so does updateClassificationFromMatchChanges, for
\* half-set scores in the old list and in the new list.
C4_HalfSetIsUnplayed ==
  /\ op = "compute"
       => ret = computeClassification(teams, HalfSetCleared(matches)).ret
  /\ op = "update"
       => ret = updateClassificationFromMatchChanges(
                  classification, HalfSetCleared(oldMatches),
                  HalfSetCleared(matches)).ret

\* C4 witness: an update in which a finished match became half-set and another
\* half-set match became finished, and the table changed.
C4_Witness ==
  /\ op = "update"
  /\ SameFixtures(oldMatches, matches)
  /\ \E i, j \in 1..Len(oldMatches) :
       /\ IsFinished(oldMatches[i]) /\ IsHalfSet(NewOf(i))
       /\ IsHalfSet(oldMatches[j]) /\ IsFinished(NewOf(j))
  /\ \E i \in 1..Len(ret) : ret[i].games > 0

RECURSIVE SumPoints(_, _)
SumPoints(tbl, k) == IF k = 0 THEN 0 ELSE tbl[k].points + SumPoints(tbl, k - 1)

Decisive(ms) ==
  {i \in 1..Len(ms) : IsFinished(ms[i]) /\ ms[i].home_score # ms[i].away_score}

Drawn(ms) ==
  {i \in 1..Len(ms) : IsFinished(ms[i]) /\ ms[i].home_score = ms[i].away_score}

\* C6: when every match of the list is finished, the points of the table
\* returned by computeClassification add up to 3 times the number of matches
\* with unequal scores plus 2 times the number of matches with equal scores.
C6_PointsConservation ==
  (op = "compute" /\ \A i \in 1..Len(matches) : IsFinished(matches[i]))
  => SumPoints(ret, Len(ret))
       = 3 * Cardinality(Decisive(matches)) + 2 * Cardinality(Drawn(matches))

\* C6 witness: a computed table of a list with a decisive and a drawn match.
C6_Witness ==
  /\ op = "compute"
  /\ \A i \in 1..Len(matches) : IsFinished(matches[i])
  /\ Decisive(matches) # {}
  /\ Drawn(matches) # {}

\* C7: every entry of a table returned by computeClassification or by
\* updateClassificationFromMatchChanges has goal_diff = goals_for -
\* goals_against.
C7_GoalDiff ==
  op \in {"compute", "update"}
  => \A i \in 1..Len(ret) : ret[i].goal_diff = ret[i].goals_for - ret[i].goals_against

\* C7 witness: an update that changed no match, from a table whose goal_diff
\* values were not goals_for - goals_against.
C7_Witness ==
  /\ op = "update"
  /\ oldMatches = matches
  /\ Len(ret) > 0
  /\ \A i \in 1..Len(classification) :
       classification[i].goal_diff
         # classification[i].goals_for - classification[i].goals_against

\* The teams that play in a finished match of the list.
Playing(ms) ==
  UNION {{ms[i].home_team_id, ms[i].away_team_id} :
           i \in {j \in 1..Len(ms) : IsFinished(ms[j])}}

\* C8: computeClassification returns exactly one entry for every team of the
\* team list and no other, all zero for a team that is in no finished match;
\* updateClassificationFromMatchChanges returns exactly one entry for every
\* team_id of the table passed in.
C8_OneEntryPerTeam ==
  /\ op = "compute"
       => /\ Len(ret) = Len(teams)
          /\ TeamIds(ret) = {teams[i].id : i \in 1..Len(teams)}
          /\ \A i \in 1..Len(ret) :
               ret[i].team_id \notin Playing(matches)
                 => ret[i] = ZeroEntry(ret[i].team_id)
  /\ op = "update"
       => /\ Len(ret) = Cardinality(TeamIds(classification))
          /\ TeamIds(ret) = TeamIds(classification)

\* C8 witness: a computed table with a team that has played and one that has
\* not.
C8_Witness ==
  /\ op = "compute"
  /\ Playing(matches) # {}
  /\ \E i \in 1..Len(ret) : ret[i].team_id \notin Playing(matches)

\* C8 witness for the update: a table of fewer entries than teams comes back
\* with the same team_ids.
C8_WitnessUpdate ==
  /\ op = "update"
  /\ Len(classification) < Len(teams)
  /\ ret # classification

\* C9: no call changes its inputs: the team list, the two match lists and
\* every entry of the table passed in are after a call what they were before.
C9_InputsUntouched ==
  [][ /\ teams' = teams
      /\ oldMatches' = oldMatches
      /\ matches' = matches
      /\ classification' = classification ]_vars

\* C9 witness: an update returned a table with other values than the table
\* passed in.
C9_Witness ==
  /\ op = "update"
  /\ \E i \in 1..Len(classification) :
       ~SameCounters(EntryOf(ret, classification[i].team_id), classification[i])

\* C10: with the same list as old and new list, the update returns for every
\* team of the table the points, games, wins, draws, losses, goals_for and
\* goals_against of the table passed in.
C10_UnchangedIsNoOp ==
  (op = "update" /\ oldMatches = matches)
  => \A i \in 1..Len(classification) :
       /\ HasEntry(ret, classification[i].team_id)
       /\ SameCounters(EntryOf(ret, classification[i].team_id), classification[i])

\* C10 witness: such an update with a finished match in the list, from a
\* table that is not the standings of the list.
C10_Witness ==
  /\ op = "update"
  /\ oldMatches = matches
  /\ \E i \in 1..Len(matches) : IsFinished(matches[i])
  /\ classification # computeClassification(teams, matches).ret

-----------------------------------------------------------------------------
(* Properties of the stored table (specification SpecSeason) *)

\* The matches the home page of the dynamic table hands to
\* computeClassification: both scores set and not excluded.
played(ms) ==
  SelectSeq(ms, LAMBDA m : m.home_score # Null /\ m.away_score # Null
                           /\ m.id \notin excludedMatchIds)

\* C3: a match counts in the standings exactly when both of its scores are
\* set and its id is not excluded: the table computed from the stored matches
\* is the table of the finished matches that are not excluded, so a finished
\* excluded match changes no entry.
C3_ExcludedNeverCounts ==
  op = "admin_classification"
  => ret = computeClassification(teams, played(matches)).ret

\* a is placed before b rightly: more points, or equal points and more wins,
\* or equal on these and a larger goal difference, or equal on these and more
\* goals scored, or equal on all four and a name that is not after b's.
RightlyBefore(a, b, ts) ==
  \/ a.points > b.points
  \/ /\ a.points = b.points
     /\ \/ a.wins > b.wins
        \/ /\ a.wins = b.wins
           /\ \/ a.goal_diff > b.goal_diff
              \/ /\ a.goal_diff = b.goal_diff
                 /\ \/ a.goals_for > b.goals_for
                    \/ /\ a.goals_for = b.goals_for
                       /\ localeCompare(TeamName(ts, a.team_id),
                                        TeamName(ts, b.team_id)) <= 0

C5_WitnessName ==
  /\ op = "admin_classification"
  /\ \E i, j \in 1..Len(ret) :
       /\ i < j
       /\ ret[i].games > 0
       /\ SameStats([ret[i] EXCEPT !.team_id = 0, !.games = 0, !.draws = 0,
                                  !.losses = 0, !.goals_against = 0],
                    [ret[j] EXCEPT !.team_id = 0, !.games = 0, !.draws = 0,
                                  !.losses = 0, !.goals_against = 0])

-----------------------------------------------------------------------------
(* Properties of computeClassification on unknown teams (specification SpecRef) *)

\* A finished match of the list has a home or away team that is not in the
\* team list.
UnknownTeamFinished(ts, ms) ==
  \E i \in 1..Len(ms) :
    /\ IsFinished(ms[i])
    /\ \/ ms[i].home_team_id \notin {ts[j].id : j \in 1..Len(ts)}
       \/ ms[i].away_team_id \notin {ts[j].id : j \in 1..Len(ts)}

-----------------------------------------------------------------------------
(* Properties of the admin result entry (specification SpecAdmin) *)

\* A score that is set and is not a non-negative integer.
IsMalformed(sc) == sc # Null /\ sc[1] < 0

HasMalformedScore(m) == IsMalformed(m.home_score) \/ IsMalformed(m.away_score)

\* The matches of a list without those with a malformed score.
WellFormedOnly(ms) == SelectSeq(ms, LAMBDA m : ~HasMalformedScore(m))

\* C12: a score outside the non-negative integers that the admin result
\* entry hands to updateClassificationFromMatchChanges or that
\* computeClassification reads from the stored matches is rejected with
\* MalformedScoreError and counts in no team's goals, games or points: the
\* stored table has per team the counters of the table of the matches with
\* well-formed scores.
C12_MalformedScoreRejected ==
  ( /\ op \in {"admin_matches", "admin_matches_thrown",
               "admin_classification", "admin_classification_thrown"}
    /\ \E i \in 1..Len(matches) : HasMalformedScore(matches[i]) )
  => /\ error = "MalformedScoreError"
     /\ \A wellFormed \in {computeClassification(teams, WellFormedOnly(matches)).ret} :
          \A i \in 1..Len(classification) :
            SameCounters(classification[i],
                         EntryOf(wellFormed, classification[i].team_id))

-----------------------------------------------------------------------------
(* Properties of the ranking (specification SpecRanking) *)

Sign(x) == IF x > 0 THEN 1 ELSE IF x < 0 THEN -1 ELSE 0

\* The points of the prediction ph-pa on the result mh-ma.
ExpectedPoints(ph, pa, mh, ma) ==
  IF ph = mh /\ pa = ma THEN 3
  ELSE IF Sign(ph - pa) = Sign(mh - ma) THEN 1
  ELSE 0

\* The stored match a prediction is about.
HasMatch(p) == \E i \in 1..Len(matches) : matches[i].id = p.match_id

MatchOf(p) == matches[CHOOSE i \in 1..Len(matches) : matches[i].id = p.match_id]

\* A round filter is given: the query names a round (round=0 names none and
\* the page shows the general ranking).
RoundGiven == arg \notin {"", "0"}

GivenRound == CHOOSE r \in 1..2 : ToString(r) = arg

\* The prediction counts: its match exists, is finished, is not excluded
\* and, when a round filter is given, is of that round.
Counts(p) ==
  /\ HasMatch(p)
  /\ IsFinished(MatchOf(p))
  /\ p.match_id \notin {5, 6, 7, 8}
  /\ RoundGiven => MatchOf(p).round = GivenRound

\* The predictions of user u that count, in the order of the table.
Counted(u) == SelectSeq(predictions, LAMBDA p : p.user_id = u /\ Counts(p))

PointsOf(p) ==
  ExpectedPoints(p.home_score[1], p.away_score[1],
                 MatchOf(p).home_score[1], MatchOf(p).away_score[1])

RECURSIVE SumPointsOf(_, _)
SumPointsOf(ps, k) == IF k = 0 THEN 0 ELSE PointsOf(ps[k]) + SumPointsOf(ps, k - 1)

\* C13: a prediction of a finished match gets 3 points when both of its
\* scores are the match's, else 1 point when the sign of its home score minus
\* its away score is the sign of the match's, else 0 points: every detail
\* record carries these points and a row's total is their sum over the
\* user's predictions that count.
C13_PredictionPoints ==
  op = "ranking"
  => \A i \in 1..Len(ret) :
       /\ \A k \in 1..Len(ret[i].details) :
            LET d == ret[i].details[k]
            IN  d.points = ExpectedPoints(d.prediction[1][1], d.prediction[2][1],
                                          d.result[1][1], d.result[2][1])
       /\ \A counted \in {Counted(ret[i].user.id)} :
            ret[i].total = SumPointsOf(counted, Len(counted))

\* C13 witness: a ranking with a prediction of a home win that got 1 point for
\* a home win with another score, and the row has that total.
C13_Witness ==
  /\ op = "ranking"
  /\ \E i \in 1..Len(ret) :
       /\ ret[i].total = 1
       /\ \E k \in 1..Len(ret[i].details) :
            LET d == ret[i].details[k]
            IN  /\ d.points = 1
                /\ d.prediction[1][1] > d.prediction[2][1]
                /\ d.prediction # d.result

\* The prediction is about a stored match without both scores.
Pending(p) == HasMatch(p) /\ ~IsFinished(MatchOf(p))

\* C14: a prediction of a match that is not finished adds nothing to a total
\* or to a counter and has no detail record: the ranking is the ranking of
\* the predictions table without the pending predictions, and no row has more
\* detail records than its user has predictions of finished matches.
C14_PendingAddsNothing ==
  op = "ranking"
  => /\ ret = handleRanking(users, SelectSeq(predictions, LAMBDA p : ~Pending(p)),
                            matches, teams, arg)
     /\ \A i \in 1..Len(ret) :
          Len(ret[i].details)
            <= Len(SelectSeq(predictions,
                             LAMBDA p : p.user_id = ret[i].user.id /\ ~Pending(p)))

\* C14 witness: a ranking with a presenter's prediction of a match that has
\* exactly one score set, is not excluded and passes the round filter.
C14_Witness ==
  /\ op = "ranking"
  /\ \E k \in 1..Len(predictions) :
       /\ Pending(predictions[k])
       /\ IsHalfSet(MatchOf(predictions[k]))
       /\ predictions[k].match_id \notin excludedMatchIds
       /\ RoundGiven => MatchOf(predictions[k]).round = GivenRound
       /\ \E i \in 1..Len(ret) : ret[i].user.id = predictions[k].user_id

C15_WitnessRound ==
  /\ op = "ranking"
  /\ arg = "1"
  /\ \E j, k \in 1..Len(predictions) :
       /\ predictions[j].user_id \in {ret[i].user.id : i \in 1..Len(ret)}
       /\ HasMatch(predictions[j]) /\ IsFinished(MatchOf(predictions[j]))
       /\ MatchOf(predictions[j]).round = 2
       /\ predictions[k].user_id = 1
       /\ Counts(predictions[k])

\* C16: in every row total = 3 * exactCount + resultCount, and exactCount +
\* resultCount + errorCount is the number of detail records, which is the
\* number of the user's predictions that count.
C16_RowArithmetic ==
  op = "ranking"
  => \A i \in 1..Len(ret) :
       /\ ret[i].total = 3 * ret[i].exactCount + ret[i].resultCount
       /\ ret[i].exactCount + ret[i].resultCount + ret[i].errorCount
            = Len(ret[i].details)
       /\ Len(ret[i].details) = Len(Counted(ret[i].user.id))

\* C16 witness: a row with an exact prediction and a miss.
C16_Witness ==
  /\ op = "ranking"
  /\ \E i \in 1..Len(ret) :
       /\ ret[i].exactCount = 1
       /\ ret[i].errorCount = 1
       /\ Len(ret[i].details) = 2

\* C17: no row has a larger total than a row placed before it.
C17_TotalDescending ==
  op = "ranking"
  => \A i, j \in 1..Len(ret) : i < j => ret[i].total >= ret[j].total

\* C17 witness: the first row has a larger total than the second and is of a
\* user that is later in the user list.
C17_Witness ==
  /\ op = "ranking"
  /\ Len(ret) >= 2
  /\ ret[1].total > ret[2].total
  /\ ret[1].user.id > ret[2].user.id

-----------------------------------------------------------------------------
(* Properties of computeTeamForm (specification SpecForm) *)

\* The indices of the finished matches of the team arg.
FinishedOf ==
  {i \in 1..Len(matches) :
     /\ IsFinished(matches[i])
     /\ arg \in {matches[i].home_team_id, matches[i].away_team_id}}

Min(a, b) == IF a < b THEN a ELSE b

\* C18: computeTeamForm returns exactly 5 elements and does not fail: with k
\* finished matches of the team, the first min(k, 5) elements are V, E or D
\* and the remaining ones are '-'.
C18_FormLength ==
  op # "init"
  => /\ op = "form"
     /\ Len(ret) = 5
     /\ \A i \in 1..Len(ret) :
          IF i <= Min(Cardinality(FinishedOf), 5)
          THEN ret[i] \in {"V", "E", "D"}
          ELSE ret[i] = "-"

\* C18 witness: a form of two results and three markers.
C18_Witness ==
  /\ op = "form"
  /\ Cardinality(FinishedOf) = 2
  /\ ret[2] # "-"
  /\ ret[3] = "-"

\* C18 witness for the window: the team has six finished matches.
C18_WitnessSix == op = "form" /\ Cardinality(FinishedOf) = 6

\* C18 witness for the empty history: a team without a finished match.
C18_WitnessNone == op = "form" /\ FinishedOf = {} /\ ret[1] = "-"

\* The place of the finished match i among the team's finished matches, most
\* recent first; matches of one day are in the order of the list.
Recency(i) ==
  1 + Cardinality({j \in FinishedOf :
                     \/ matches[j].date > matches[i].date
                     \/ matches[j].date = matches[i].date /\ j < i})

\* How the match m ended for the team t: its goals against the opponent's.
Outcome(m, t) ==
  LET own == IF m.home_team_id = t THEN m.home_score[1] ELSE m.away_score[1]
      opp == IF m.home_team_id = t THEN m.away_score[1] ELSE m.home_score[1]
  IN  IF own > opp THEN "V" ELSE IF own < opp THEN "D" ELSE "E"

\* C19: the i-th element of the form is the result, from the team's side, of
\* its i-th most recent finished match by date; a match with an unset score
\* or of other teams is none of them.
C19_FormOrder ==
  op = "form"
  => \A i \in FinishedOf :
       Recency(i) <= 5
         => /\ Recency(i) <= Len(ret)
            /\ ret[Recency(i)] = Outcome(matches[i], arg)

\* C19 witness: the team's most recent finished match is not the first of
\* the list, the team played it away and won it, and a match of the team
\* with one score set is more recent still.
C19_Witness ==
  /\ op = "form"
  /\ ret[1] = "V"
  /\ \E i \in FinishedOf :
       /\ Recency(i) = 1
       /\ i > 1
       /\ matches[i].away_team_id = arg
       /\ \E j \in 1..Len(matches) :
            /\ IsHalfSet(matches[j])
            /\ matches[j].date > matches[i].date
            /\ arg \in {matches[j].home_team_id, matches[j].away_team_id}

-----------------------------------------------------------------------------
(* Properties of the simulation page (specification SpecSim) *)

\* The stored list holds a finished match of the round and the teams of the
\* schedule item.
FinishedInStore(item) ==
  \E i \in 1..Len(matches) :
    /\ matches[i].round = item.round
    /\ matches[i].home_team_id = item.home
    /\ matches[i].away_team_id = item.away
    /\ IsFinished(matches[i])

\* C20: a fixture of the schedule is offered for simulation exactly when the
\* stored match list holds no match of the same round, home team and away
\* team with both scores set; the offered fixtures are in the order of the
\* schedule, each once.
C20_SimulatableFixtures ==
  op \in {"simulacao", "simulacao_thrown"}
  => /\ op = "simulacao"
     /\ \A k \in 1..Len(fullSchedule) :
          (\E j \in 1..Len(ret.schedule) : ret.schedule[j] = fullSchedule[k])
            <=> ~FinishedInStore(fullSchedule[k])
     /\ Len(ret.schedule)
          = Cardinality({k \in 1..Len(fullSchedule) : ~FinishedInStore(fullSchedule[k])})

\* C20 witness: the finished match 2 is left out, match 4 with one score set
\* is offered, and the fixtures of the teams of the finished matches 1 and 3
\* in another round and with the sides swapped are offered.
C20_Witness ==
  /\ op = "simulacao"
  /\ IsFinished(matches[1]) /\ IsFinished(matches[2]) /\ IsFinished(matches[3])
  /\ IsHalfSet(matches[4])
  /\ ret.schedule = <<fullSchedule[2], fullSchedule[3], fullSchedule[4]>>

-----------------------------------------------------------------------------
(* Properties of the simulation page between admin requests (specification
   SpecSite) *)

\* C21: serving the simulation changes no stored data: the stored matches,
\* standings and predictions are after the request what they were before it,
\* whatever requests came before.
C21_SimulationStoresNothing ==
  [][ op' \in {"simulacao", "simulacao_thrown"}
      => /\ matches' = matches
         /\ classification' = classification
         /\ predictions' = predictions ]_vars

\* C21 witness: the simulation was served after results were entered, and
\* the base classification of the page is not the stored table.
C21_Witness ==
  /\ op = "simulacao"
  /\ \E i \in 1..Len(matches) : IsFinished(matches[i])
  /\ ret.classification # classification

-----------------------------------------------------------------------------
(* Properties of the prediction form (specification SpecPalpites) *)

\* The indexes of the predictions of a sequence for a match and a user.
RecordsOf(preds, matchId, userId) ==
  {i \in 1..Len(preds) : preds[i].match_id = matchId /\ preds[i].user_id = userId}

\* predictions.json holds at most one prediction per (match, user), and no
\* two with the same id.
C22_OnePerPair ==
  \A i, j \in 1..Len(predictions) :
    i # j => /\ predictions[i].id # predictions[j].id
             /\ ~(/\ predictions[i].match_id = predictions[j].match_id
                  /\ predictions[i].user_id = predictions[j].user_id)

\* A submission leaves every prediction where it is, with its id, match and
\* user, gives the submitted scores to the one prediction of each submitted
\* pair, and adds a prediction only for a pair that had none.
C22_Replaces ==
  /\ Len(predictions') >= Len(predictions)
  /\ \A i \in 1..Len(predictions) :
       /\ predictions'[i].id = predictions[i].id
       /\ predictions'[i].match_id = predictions[i].match_id
       /\ predictions'[i].user_id = predictions[i].user_id
  /\ \A i \in (Len(predictions) + 1)..Len(predictions') :
       RecordsOf(predictions, predictions'[i].match_id,
                 predictions'[i].user_id) = {}
  /\ \A u \in DOMAIN ret'.predsByUser :
       \A k \in 1..Len(ret'.predsByUser[u]) :
         LET e == ret'.predsByUser[u][k]
         IN \A i \in RecordsOf(predictions', e.match_id, u) :
              /\ predictions'[i].home_score = e.home_score
              /\ predictions'[i].away_score = e.away_score

\* C22: after any sequence of prediction submissions, from a predictions file
\* with at most one prediction per (match, user) and distinct ids, the file
\* still holds at most one prediction per (match, user) and distinct ids;
\* submitting again for a pair replaces the scores of its prediction and adds
\* no second record.
C22_OnePredictionPerPair == []C22_OnePerPair /\ [][C22_Replaces]_vars

\* The prediction of id 7, of presenter 3 on match 2, entered as 1-1, has
\* been submitted again as 1-0 next to a new prediction.
C22_Witness ==
  /\ op = "palpites"
  /\ Len(predictions) = 2
  /\ predictions[1].id = 7
  /\ predictions[1].home_score = Num(1) /\ predictions[1].away_score = Num(0)
  /\ 3 \in DOMAIN ret.predsByUser
  /\ \E k \in 1..Len(ret.predsByUser[3]) : ret.predsByUser[3][k].match_id = 2
  /\ predictions[2].id = 8

\* The (match, user, scores) of the rows of a store.
PredictionSet(rows) ==
  {<<rows[i].match_id, rows[i].user_id, rows[i].home_score, rows[i].away_score>> :
     i \in 1..Len(rows)}

\* C30: after any sequence of prediction submissions, from a predictions file
\* and a predictions table holding the same (match, user, scores) set, the
\* two stores hold the same set; a submission for only some matches of the
\* round leaves the user's earlier predictions for the other matches in both
\* stores or in neither.
C30_StoresAgree == PredictionSet(predictions) = PredictionSet(dbPredictions)

-----------------------------------------------------------------------------
(* Properties of the next round (specification SpecRound) *)

\* Round r has a match, not excluded, without a result.
OpenWithoutExcluded(r) ==
  \E i \in 1..Len(matches) : /\ matches[i].round = r
                             /\ matches[i].id \notin excludedMatchIds
                             /\ ~IsFinished(matches[i])

\* Every presenter has a prediction in predictions.json, as it is before the
\* request, for every match of round r that is not excluded.
PredictedWithoutExcluded(r) ==
  \A i \in 1..Len(matches), k \in 1..Len(users) :
    (/\ matches[i].round = r
     /\ matches[i].id \notin excludedMatchIds
     /\ ~users[k].isAdmin)
      => RecordsOf(predictions, matches[i].id, users[k].id) # {}

\* The rows of a store on excluded matches.
OnExcluded(rows) ==
  {rows[i] : i \in {j \in 1..Len(rows) : rows[j].match_id \in excludedMatchIds}}

\* C23: the next round chosen for predictions ignores excluded matches: a
\* round whose only unscored matches are excluded is never chosen, a
\* prediction missing on an excluded match never makes a round the next
\* round (a round chosen with every prediction on its other matches is the
\* smallest open round, every open round being predicted in full), and the
\* submission creates or changes no prediction on an excluded match, in
\* predictions.json or in the predictions table.
C23_ExcludedMatchesIgnored ==
  [][ op' \in {"palpites", "palpites_closed"} =>
        /\ ret'.round # Null =>
             /\ OpenWithoutExcluded(Val(ret'.round))
             /\ PredictedWithoutExcluded(Val(ret'.round)) =>
                  \A i \in 1..Len(matches) :
                    OpenWithoutExcluded(matches[i].round) =>
                      /\ PredictedWithoutExcluded(matches[i].round)
                      /\ Val(ret'.round) <= matches[i].round
        /\ OnExcluded(predictions') = OnExcluded(predictions)
        /\ OnExcluded(dbPredictions') \subseteq OnExcluded(dbPredictions) ]_vars

\* Round 1 is open and predicted in full but for its excluded match, the
\* form has fields for an excluded match, and round 2 is chosen.
C23_Witness ==
  /\ op = "palpites"
  /\ ret.round = Num(2)
  /\ ~IsFinished(matches[1])
  /\ RecordsOf(predictions, 5, 2) = {}
  /\ <<2, 5>> \in DOMAIN arg
  /\ <<2, 3>> \in DOMAIN arg

-----------------------------------------------------------------------------
(* Properties of overlapping submissions (specification SpecSave) *)

\* Every call of savePredictionsForRound has run to its end.
AllSaved == \A c \in 1..Len(calls) : calls[c].step > Len(calls[c].list)

\* C26: under any interleaving of concurrent prediction submissions for the
\* same user and round, the predictions table ends with at most one row per
\* (match, user).
C26_OneRowPerPair ==
  AllSaved =>
    \A i, j \in 1..Len(dbPredictions) :
      i # j => ~(/\ dbPredictions[i].match_id = dbPredictions[j].match_id
                 /\ dbPredictions[i].user_id = dbPredictions[j].user_id)

-----------------------------------------------------------------------------
(* Counter equalities of the standings (specifications SpecAdmin and Spec) *)

\* The games of an entry are its wins, draws and losses, and its points three
\* a win and one a draw.
WellCounted(e) ==
  /\ e.games = e.wins + e.draws + e.losses
  /\ e.points = 3 * e.wins + e.draws

\* No counter of an entry is negative.
NonNegative(e) ==
  /\ e.points >= 0 /\ e.games >= 0 /\ e.wins >= 0 /\ e.draws >= 0
  /\ e.losses >= 0 /\ e.goals_for >= 0 /\ e.goals_against >= 0

\* C28: every entry returned by computeClassification has games = wins +
\* draws + losses and points = 3 * wins + draws, and
\* updateClassificationFromMatchChanges keeps both equalities, and every
\* counter non-negative, whenever its input table is computeClassification of
\* oldMatches: on the calls the admin requests make with the stored data,
\* matches being oldMatches and ret' the table returned.
C28_CounterEqualities ==
  [][ /\ op' = "admin_classification" =>
           \A i \in 1..Len(ret') : WellCounted(ret'[i])
      /\ ( /\ op' = "admin_matches"
           /\ classification = computeClassification(teams, matches).ret )
         => \A i \in 1..Len(ret') :
              WellCounted(ret'[i]) /\ NonNegative(ret'[i]) ]_vars

\* The same on the calls of Spec, whose scores are 0..MaxGoals.
CounterEqualitiesOfCalls ==
  /\ op = "compute" => \A i \in 1..Len(ret) : WellCounted(ret[i])
  /\ ( /\ op = "update"
       /\ classification = computeClassification(teams, oldMatches).ret )
     => \A i \in 1..Len(ret) : WellCounted(ret[i]) /\ NonNegative(ret[i])

-----------------------------------------------------------------------------
(* Order of the stored table (specification SpecAdmin) *)

\* C25: in the standings table written by the admin result entry, two teams
\* with identical points, wins, goal difference and goals_for are ordered by
\* team name ascending, as in the table returned by computeClassification.
C25_StoredTieBreak ==
  op = "admin_matches"
  => \A i, j \in 1..Len(classification) :
       ( /\ i < j
         /\ classification[i].points = classification[j].points
         /\ classification[i].wins = classification[j].wins
         /\ classification[i].goal_diff = classification[j].goal_diff
         /\ classification[i].goals_for = classification[j].goals_for )
       => localeCompare(TeamName(teams, classification[i].team_id),
                        TeamName(teams, classification[j].team_id)) <= 0

-----------------------------------------------------------------------------
(* Failure of the admin result entry (specification SpecStale) *)

\* C27: if the admin result entry fails while updating the standings (a
\* match whose score changed references a team with no entry in the stored
\* table), no persisted data is changed: the stored matches and the stored
\* standings are as they were before the request.
C27_FailureStoresNothing ==
  [][ op' = "admin_matches_thrown"
      => matches' = matches /\ classification' = classification ]_vars

-----------------------------------------------------------------------------
(* The stored table against a recomputation (specification SpecAnyField) *)

\* C24: from a stored standings table equal to computeClassification(teams,
\* stored matches), after any sequence of admin result updates and standings
\* recomputations, with any submitted scores, the stored standings give every
\* team the same field values as computeClassification of the stored matches.
C24_StoredEqualsRecompute ==
  \A recomputed \in {computeClassification(teams, matches).ret} :
    \A i \in 1..Len(teams) :
      /\ HasEntry(classification, teams[i].id)
      /\ EntryOf(classification, teams[i].id) = EntryOf(recomputed, teams[i].id)

\* The stored table holds every team once (the comparator of the stored sort
\* is a consistent one on the tables reached).
StoredTableIsPermutation ==
  /\ Len(classification) = Len(teams)
  /\ \A i \in 1..Len(teams) : HasEntry(classification, teams[i].id)

-----------------------------------------------------------------------------
(* Sessions and the admin routes: specification SpecSession *)

\* users.json, which import_data.js copies into the users table: an admin
\* and a presenter, both with credentials.
SessionUsers ==
  << [id |-> 1, email |-> "admin", password |-> "pw", isAdmin |-> TRUE],
     [id |-> 2, email |-> "ana", password |-> "pw2", isAdmin |-> FALSE] >>

\* The rows of the users table of the database.
DbUsers == SessionUsers

\* The credentials of the login forms: the admin's, the admin's email with a
\* wrong password, the presenter's.
Credentials == {<<"admin", "pw">>, <<"admin", "no">>, <<"ana", "pw2">>}

\* The values of crypto.randomBytes(16).toString('hex').
Tokens == {"t1", "t2"}

\* A property name every object inherits: sessions[token] is a function
\* then, truthy and the id of no user.
InheritedKeys == {"constructor"}

\* The session cookie of a request: none, a token or a forged value.
Cookies == {""} \cup Tokens \cup InheritedKeys

\* matches.json and scorers.json in SpecSession.
SessionFixtures == <<[id |-> 1, home_team_id |-> 1, away_team_id |-> 2]>>

ScorersFile ==
  << [rank |-> 1, player |-> "Ana", team_id |-> 1, goals |-> 2],
     [rank |-> 2, player |-> "Bia", team_id |-> 2, goals |-> 1] >>

\* Collation order of the player names.
PlayerCollation == <<"Ana", "Bia">>

\* The values of a score field of the admin form in SpecSession.
SessionValues == {"", "1"}

\* The scorer forms: a field is <<name, idx>>, for player_idx, team_idx and
\* goals_idx.
ScorerForms ==
  { [k \in {<<"goals", 1>>} |-> "2"],
    [k \in {<<"goals", 0>>} |-> "x"],
    [k \in {<<"player", 0>>, <<"team", 0>>} |->
       IF k[1] = "player" THEN " " ELSE "0"] }

\* Largest number of admin requests whose body has not ended.
MaxPending == 1

\* db.get of getUserByCredentials: the row with the email and the password,
\* undefined with none.
getUserByCredentials(email, password) ==
  LET Rows == {i \in 1..Len(DbUsers) :
                 DbUsers[i].email = email /\ DbUsers[i].password = password}
  IN  IF Rows = {} THEN Null
      ELSE DbUsers[CHOOSE i \in Rows : \A j \in Rows : i <= j]

\* user && user.isAdmin, with any user in place of an admin.
IsAnyUser(user) == user # Null

\* user && user.isAdmin
IsAdminUser(user) == user # Null /\ user.isAdmin

\* getUserFromRequest with the cookie token: null with no cookie, with a
\* token the store lacks and with a stored id that is falsy; the user of
\* users.json with the stored id otherwise, undefined (Null here, falsy too)
\* with none and with an inherited key.
getUserFromRequest(us, store, token) ==
  IF token = "" THEN Null
  ELSE IF token \in DOMAIN store
  THEN IF store[token] = 0 THEN Null
       ELSE LET Found == {i \in 1..Len(us) : us[i].id = store[token]}
            IN  IF Found = {} THEN Null
                ELSE us[CHOOSE i \in Found : \A j \in Found : i <= j]
  ELSE Null

InitSession ==
  /\ teams = Teams
  /\ oldMatches = <<>>
  /\ matches = WithScores(SessionFixtures, <<<<Null, Null>>>>)
  /\ classification = computeClassification(Teams, matches).ret
  /\ ret = <<>>
  /\ op = "init"
  /\ error = ""
  /\ users = SessionUsers
  /\ predictions = <<>>
  /\ arg = ""
  /\ dbPredictions = <<>>
  /\ calls = <<>>
  /\ sessions = <<>>
  /\ scorers = ScorersFile

\* What no request of SpecSession changes.
SessionFixed ==
  UNCHANGED <<teams, oldMatches, ret, error, users, predictions, dbPredictions>>

\* The matches, the table and the scorers.
stores == <<matches, classification, scorers>>

\* POST /login: a token is made and stored for an admin of the users table.
handleLoginPost ==
  \E c \in Credentials, token \in Tokens :
    \E user \in {getUserByCredentials(c[1], c[2])} :
      /\ sessions' = IF IsAdminUser(user)
                     THEN [t \in DOMAIN sessions \cup {token} |->
                             IF t = token THEN user.id ELSE sessions[t]]
                     ELSE sessions
      /\ op' = IF IsAdminUser(user) THEN "login" ELSE "login_refused"
      /\ arg' = c
      /\ SessionFixed
      /\ UNCHANGED <<stores, calls>>

\* /logout: delete sessions[cookies.session]
handleLogout ==
  \E token \in Cookies :
    /\ sessions' = IF token # ""
                   THEN [t \in DOMAIN sessions \ {token} |-> sessions[t]]
                   ELSE sessions
    /\ op' = "logout"
    /\ arg' = token
    /\ SessionFixed
    /\ UNCHANGED <<stores, calls>>

AdminPaths ==
  {"/admin/update_matches", "/admin/update_classification",
   "/admin/update_scorers"}

\* The request event of a POST to an admin path: the user of the cookie is
\* looked up, anyone but an admin is redirected, and the handler starts to
\* read the body.
AdminRequest ==
  \E path \in AdminPaths, token \in Cookies :
    \E user \in {getUserFromRequest(users, sessions, token)} :
      /\ IsAdminUser(user) => Len(calls) < MaxPending
      /\ calls' = IF IsAdminUser(user)
                  THEN Append(calls, [path |-> path, token |-> token])
                  ELSE calls
      /\ op' = IF IsAdminUser(user) THEN "admitted" ELSE "redirect"
      /\ arg' = token
      /\ SessionFixed
      /\ UNCHANGED <<stores, sessions>>

\* calls without its i-th element.
Without(seq, i) ==
  [k \in 1..(Len(seq) - 1) |-> IF k < i THEN seq[k] ELSE seq[k + 1]]

\* The end of the body of an admitted POST /admin/update_matches
\* (handleAdminUpdateMatches), with both fields of one match.
AdminUpdateMatchesEnd ==
  \E i \in 1..Len(calls) :
    /\ calls[i].path = "/admin/update_matches"
    /\ \E id \in {matches[k].id : k \in 1..Len(matches)},
          hVal \in SessionValues, aVal \in SessionValues :
         \E newMatches \in {ApplyForm(matches, [k \in {id} |-> <<hVal, aVal>>])} :
           \E r \in {updateClassificationFromMatchChanges(classification, matches, newMatches)} :
             /\ ~r.thrown
             /\ matches' = StoredMatches(newMatches)
             /\ classification' =
                  StoredTable(Sort(r.ret, [p \in Range(r.ret) \X Range(r.ret) |->
                                             CompareStored(p[1], p[2])]))
    /\ calls' = Without(calls, i)
    /\ op' = "admin_matches"
    /\ arg' = calls[i].token
    /\ SessionFixed
    /\ UNCHANGED <<sessions, scorers>>

\* The end of the body of an admitted POST /admin/update_classification
\* (handleAdminUpdateClassification).
AdminUpdateClassificationEnd ==
  \E i \in 1..Len(calls) :
    /\ calls[i].path = "/admin/update_classification"
    /\ \E r \in {computeClassification(teams, matches)} :
         /\ ~r.thrown
         /\ classification' = r.ret
    /\ calls' = Without(calls, i)
    /\ op' = "admin_classification"
    /\ arg' = calls[i].token
    /\ SessionFixed
    /\ UNCHANGED <<sessions, matches, scorers>>

\* String.prototype.trim on the player names of the forms.
trim(str) == IF str = " " THEN "" ELSE str

\* The comparator of dataStore.scorers.sort: goals descending, then the
\* player name.
CompareScorers(a, b) ==
  LET Rank(s) == CHOOSE i \in 1..Len(PlayerCollation) : PlayerCollation[i] = s
  IN  IF b.goals # a.goals THEN b.goals - a.goals
      ELSE IF Rank(a.player) < Rank(b.player) THEN -1
      ELSE IF Rank(a.player) > Rank(b.player) THEN 1 ELSE 0

\* dataStore.scorers after the forEach over the fields of the form, the sort
\* and the new ranks.
UpdateScorers(ss, ts, form) ==
  LET Has(name, idx) == <<name, idx>> \in DOMAIN form
      Player(s, idx) ==
        IF Has("player", idx) /\ trim(form[<<"player", idx>>]) # ""
        THEN trim(form[<<"player", idx>>]) ELSE s.player
      Team(s, idx) ==
        IF Has("team", idx)
           /\ \E k \in 1..Len(ts) : ts[k].id = parseInt(form[<<"team", idx>>])
        THEN parseInt(form[<<"team", idx>>]) ELSE s.team_id
      Goals(s, idx) ==
        IF Has("goals", idx)
        THEN IF parseInt(form[<<"goals", idx>>]) = NaN THEN 0
             ELSE parseInt(form[<<"goals", idx>>])
        ELSE s.goals
      updated == [k \in 1..Len(ss) |->
                    [rank |-> ss[k].rank, player |-> Player(ss[k], k - 1),
                     team_id |-> Team(ss[k], k - 1),
                     goals |-> Goals(ss[k], k - 1)]]
      sorted == Sort(updated, [p \in Range(updated) \X Range(updated) |->
                                 CompareScorers(p[1], p[2])])
  IN  [k \in 1..Len(sorted) |-> [sorted[k] EXCEPT !.rank = k]]

\* The end of the body of an admitted POST /admin/update_scorers
\* (handleAdminUpdateScorers).
AdminUpdateScorersEnd ==
  \E i \in 1..Len(calls) :
    /\ calls[i].path = "/admin/update_scorers"
    /\ \E form \in ScorerForms : scorers' = UpdateScorers(scorers, teams, form)
    /\ calls' = Without(calls, i)
    /\ op' = "admin_scorers"
    /\ arg' = calls[i].token
    /\ SessionFixed
    /\ UNCHANGED <<sessions, matches, classification>>

NextSession ==
  \/ handleLoginPost
  \/ handleLogout
  \/ AdminRequest
  \/ AdminUpdateMatchesEnd
  \/ AdminUpdateClassificationEnd
  \/ AdminUpdateScorersEnd

SpecSession == InitSession /\ [][NextSession]_vars

-----------------------------------------------------------------------------
(* Who changes the stored data (specification SpecSession) *)

\* The credentials of an admin of the users table.
AdminCredentials ==
  {c \in Credentials :
     \E i \in 1..Len(DbUsers) :
       /\ DbUsers[i].email = c[1] /\ DbUsers[i].password = c[2]
       /\ DbUsers[i].isAdmin}

\* The ids of the admins of the users table.
AdminIds == {DbUsers[i].id : i \in {k \in 1..Len(DbUsers) : DbUsers[k].isAdmin}}

\* A token enters the session store only by a login with an admin's
\* credentials, which stores the admin's id; any other login stores nothing.
TokenOnlyByAdminLogin ==
  /\ (DOMAIN sessions' \ DOMAIN sessions) # {}
     => op' = "login" /\ arg' \in AdminCredentials
  /\ \A t \in DOMAIN sessions' : sessions'[t] \in AdminIds
  /\ (op' \in {"login", "login_refused"} /\ arg' \notin AdminCredentials)
     => sessions' = sessions

\* After a logout the store lacks the token of the request.
LogoutRemovesToken == op' = "logout" => arg' \notin DOMAIN sessions'

\* An admin request is admitted only with a token of the session store, and
\* only the end of the body of an admitted request changes the stored data.
StoresOnlyByAdmitted ==
  /\ calls' # calls /\ Len(calls') > Len(calls)
     => /\ calls'[Len(calls')].token \in DOMAIN sessions
        /\ calls'[Len(calls')].path \in AdminPaths
  /\ stores' # stores
     => /\ Len(calls') < Len(calls)
        /\ op' \in {"admin_matches", "admin_classification", "admin_scorers"}
        /\ \E i \in 1..Len(calls) : calls[i].token = arg'

\* C29: in any sequence of login, logout and admin requests, the stored
\* matches, standings and scorers are changed only by an admin request that
\* carried, when the server received it, a token of the session store; a
\* token enters the store only by a login with an admin's credentials and
\* leaves it at logout, and a failed or non-admin login stores no token.
C29_OnlyAdminSessionsChange ==
  [][TokenOnlyByAdminLogin /\ LogoutRemovesToken /\ StoresOnlyByAdmitted]_vars

\* The stored data were changed by a request with a token of an admin login.
C29_Witness ==
  /\ op = "admin_matches"
  /\ arg \in DOMAIN sessions
  /\ matches[1].home_score # Null

\* The stored data change only while the token of the request is in the
\* session store (the body of an admitted request may end after a logout).
ChangeWhileTokenStored ==
  [][stores' # stores => arg' \in DOMAIN sessions]_vars

====
